---- MODULE Spec2Model ----
(***************************************************************************)
(* Download-session orchestration and reconciliation of                    *)
(* generate_tiktok_links.go: ledger reader, skip evaluator, batch outcome  *)
(* construction and session totals.                                        *)
(*                                                                         *)
(* Go strings are modelled as sequences of one-character strings, so that  *)
(* tokenising, regular-expression matching and numeric validation are      *)
(* computed on the characters as the code computes them.                   *)
(***************************************************************************)
EXTENDS Integers, Sequences, FiniteSets, TLC

(***************************************************************************)
(* Bounds of the model.                                                    *)
(***************************************************************************)
\* longest ledger file (in lines) drawn as input of the ledger reader
MaxLedgerLines == 2
\* largest batch handed to the skip evaluator
MaxBatch == 2
\* most phrases joined into one error message handed to categorizeError
MaxPhrases == 2
\* most runs of the program that write to one results.txt
MaxRuns == 2
\* largest export (number of video entries) of a session run
MaxVideos == 2
\* most lines the external process writes on one stream
MaxStreamLines == 1
\* most lines the external process of a call of Run writes on its stdout
MaxStdoutLines == 2
\* lines a pipe holds before a write to it blocks
PipeCapacity == 1

(***************************************************************************)
(* Characters and string helpers (package strings, strconv, regexp).       *)
(***************************************************************************)
Digit == {"0","1","2","3","4","5","6","7","8","9"}

IsDigit(c) == c \in Digit

DigitVal(c) ==
  CASE c = "0" -> 0 [] c = "1" -> 1 [] c = "2" -> 2 [] c = "3" -> 3
    [] c = "4" -> 4 [] c = "5" -> 5 [] c = "6" -> 6 [] c = "7" -> 7
    [] c = "8" -> 8 [] c = "9" -> 9

\* unicode.IsSpace restricted to the white space of the model's alphabet
IsSpace(c) == c \in {" ", "\t"}

RECURSIVE TrimLeft(_)
TrimLeft(s) == IF s # <<>> /\ IsSpace(Head(s)) THEN TrimLeft(Tail(s)) ELSE s

RECURSIVE TrimRight(_)
TrimRight(s) ==
  IF s # <<>> /\ IsSpace(s[Len(s)]) THEN TrimRight(SubSeq(s, 1, Len(s) - 1)) ELSE s

\* strings.TrimSpace
TrimSpace(s) == TrimRight(TrimLeft(s))

RECURSIVE FieldsFrom(_, _, _)
FieldsFrom(s, cur, acc) ==
  IF s = <<>> THEN (IF cur = <<>> THEN acc ELSE Append(acc, cur))
  ELSE IF IsSpace(Head(s))
       THEN FieldsFrom(Tail(s), <<>>, IF cur = <<>> THEN acc ELSE Append(acc, cur))
       ELSE FieldsFrom(Tail(s), Append(cur, Head(s)), acc)

\* strings.Fields: split around runs of white space, no empty fields
Fields(s) == FieldsFrom(s, <<>>, <<>>)

\* s has p as a substring starting at index i
HasPrefixAt(s, i, p) == i + Len(p) - 1 <= Len(s) /\ SubSeq(s, i, i + Len(p) - 1) = p

\* strings.Contains
Contains(s, p) == \E i \in 1..(Len(s) + 1) : HasPrefixAt(s, i, p)

RECURSIVE DigitRun(_, _)
\* the maximal run of digits of s that starts at index i: what (\d+) captures
DigitRun(s, i) ==
  IF i <= Len(s) /\ IsDigit(s[i]) THEN <<s[i]>> \o DigitRun(s, i + 1) ELSE <<>>

\* 2^63 - 1 and 2^63 in decimal: the range of a signed 64-bit integer
MaxInt64Digits == <<"9","2","2","3","3","7","2","0","3","6","8","5","4","7","7","5","8","0","7">>
MinInt64Magnitude == <<"9","2","2","3","3","7","2","0","3","6","8","5","4","7","7","5","8","0","8">>

RECURSIVE StripZeros(_)
StripZeros(d) == IF Len(d) > 1 /\ Head(d) = "0" THEN StripZeros(Tail(d)) ELSE d

RECURSIVE DigitsLeq(_, _)
\* a <= b for two digit strings of the same length
DigitsLeq(a, b) ==
  IF a = <<>> THEN TRUE
  ELSE IF DigitVal(Head(a)) < DigitVal(Head(b)) THEN TRUE
  ELSE IF DigitVal(Head(a)) > DigitVal(Head(b)) THEN FALSE
  ELSE DigitsLeq(Tail(a), Tail(b))

\* the number written by the digits d is at most the number written by max
MagnitudeLeq(d, max) ==
  LET x == StripZeros(d)
  IN  Len(x) < Len(max) \/ (Len(x) = Len(max) /\ DigitsLeq(x, max))

\* strconv.ParseInt(s, 10, 64) returns no error: an optional sign, at least
\* one decimal digit, nothing else, and a value that fits 64 bits
ParseIntOk(s) ==
  /\ s # <<>>
  /\ LET neg == Head(s) = "-"
         d   == IF Head(s) \in {"+", "-"} THEN Tail(s) ELSE s
     IN  /\ d # <<>>
         /\ \A i \in 1..Len(d) : IsDigit(d[i])
         /\ MagnitudeLeq(d, IF neg THEN MinInt64Magnitude ELSE MaxInt64Digits)

(***************************************************************************)
(* Identifier extraction.                                                  *)
(***************************************************************************)
\* the literal prefixes of the two patterns /video/(\d+) and /v/(\d+)
videoIDPatterns == << <<"/","v","i","d","e","o","/">>, <<"/","v","/">> >>

\* regexp FindStringSubmatch of prefix(\d+): group 1 of the leftmost match,
\* the empty string when the pattern does not match
FindStringSubmatch(prefix, s) ==
  LET starts == { i \in 1..Len(s) :
                    HasPrefixAt(s, i, prefix) /\ DigitRun(s, i + Len(prefix)) # <<>> }
  IN  IF starts = {} THEN <<>>
      ELSE LET i == CHOOSE k \in starts : \A j \in starts : k <= j
           IN  DigitRun(s, i + Len(prefix))

RECURSIVE extractFrom(_, _)
extractFrom(patterns, url) ==
  IF patterns = <<>> THEN <<>>
  ELSE LET m == FindStringSubmatch(Head(patterns), url)
       IN  IF m # <<>> THEN m ELSE extractFrom(Tail(patterns), url)

\* the first pattern that matches wins; "" when none matches
extractVideoID(url) == extractFrom(videoIDPatterns, url)

(***************************************************************************)
(* Ledger reader.                                                          *)
(***************************************************************************)
\* bufio.MaxScanTokenSize, the default line limit of bufio.Scanner
MaxScanTokenSize == 65536

PlatformTag == <<"t","i","k","t","o","k">>

\* A line of a text file: its characters, followed by `fill` more characters
\* "x" (run-length encoded, so that a line can exceed the scanner's limit).
Line(text) == [text |-> text, fill |-> 0]

LineLen(l) == Len(l.text) + l.fill

RECURSIVE parseLines_StopAtMalformed(_, _)
\* parseLines with `break` in place of `continue` at a malformed line
parseLines_StopAtMalformed(lines, archive) ==
  IF lines = <<>> THEN [archive |-> archive, err |-> "nil"]
  ELSE LET l == Head(lines)
       IN  IF LineLen(l) >= MaxScanTokenSize
           THEN [archive |-> {}, err |-> "read"]
           ELSE LET line  == TrimSpace(l.text)
                    parts == Fields(line)
                IN  IF line = <<>> THEN parseLines_StopAtMalformed(Tail(lines), archive)
                    ELSE IF Len(parts) # 2 \/ parts[1] # PlatformTag \/ ~ParseIntOk(parts[2])
                    THEN [archive |-> archive, err |-> "nil"]
                    ELSE parseLines_StopAtMalformed(Tail(lines), archive \cup {parts[2]})

RECURSIVE parseLines(_, _)
\* the scan loop of parseArchiveFile over the remaining lines
parseLines(lines, archive) ==
  IF lines = <<>> THEN [archive |-> archive, err |-> "nil"]
  ELSE LET l == Head(lines)
       IN  IF LineLen(l) >= MaxScanTokenSize
           THEN \* scanner.Scan stops, scanner.Err is bufio.ErrTooLong
                [archive |-> {}, err |-> "read"]
           ELSE LET line  == TrimSpace(l.text)
                    parts == Fields(line)
                IN  IF line = <<>> THEN parseLines(Tail(lines), archive)
                    ELSE IF Len(parts) # 2 THEN parseLines(Tail(lines), archive)
                    ELSE IF parts[1] # PlatformTag THEN parseLines(Tail(lines), archive)
                    ELSE IF ~ParseIntOk(parts[2]) THEN parseLines(Tail(lines), archive)
                    ELSE parseLines(Tail(lines), archive \cup {parts[2]})

\* file: [status, lines]; status "missing" (os.Stat says not-exist),
\* "ioerror" (the file cannot be opened or read) or "ok"
parseArchiveFile(file) ==
  IF file.status = "missing" THEN [archive |-> {}, err |-> "nil"]
  ELSE IF file.status = "ioerror" THEN [archive |-> {}, err |-> "open"]
  ELSE parseLines(file.lines, {})

(***************************************************************************)
(* Skip evaluator.                                                         *)
(***************************************************************************)
Msg(kind, need, total) == [kind |-> kind, need |-> need, total |-> total]

RECURSIVE collectMissing_Lenient(_, _, _)
\* collectMissing that passes over a link without identifier
collectMissing_Lenient(entries, archive, missingIDs) ==
  IF entries = <<>> THEN [unparsed |-> FALSE, missingIDs |-> missingIDs]
  ELSE LET videoID == extractVideoID(Head(entries).Link)
       IN  IF videoID = <<>>
           THEN collectMissing_Lenient(Tail(entries), archive, missingIDs)
           ELSE collectMissing_Lenient(Tail(entries), archive,
                  IF videoID \in archive THEN missingIDs
                  ELSE Append(missingIDs, videoID))

RECURSIVE collectMissing(_, _, _)
\* the loop over the entries: stops at the first link without identifier
collectMissing(entries, archive, missingIDs) ==
  IF entries = <<>> THEN [unparsed |-> FALSE, missingIDs |-> missingIDs]
  ELSE LET videoID == extractVideoID(Head(entries).Link)
       IN  IF videoID = <<>> THEN [unparsed |-> TRUE, missingIDs |-> missingIDs]
           ELSE collectMissing(Tail(entries), archive,
                  IF videoID \in archive THEN missingIDs
                  ELSE Append(missingIDs, videoID))

shouldSkipCollection(entries, file) ==
  IF Len(entries) = 0
  THEN [skip |-> TRUE, msg |-> Msg("empty", 0, 0), err |-> "nil"]
  ELSE LET p == parseArchiveFile(file)
       IN  IF p.err # "nil"
           THEN [skip |-> FALSE, msg |-> Msg("", 0, 0), err |-> p.err]
           ELSE IF Cardinality(p.archive) = 0
           THEN [skip |-> FALSE, msg |-> Msg("noarchive", Len(entries), Len(entries)),
                 err |-> "nil"]
           ELSE LET r == collectMissing(entries, p.archive, <<>>)
                IN  IF r.unparsed
                    THEN [skip |-> FALSE, msg |-> Msg("unparsed", 0, 0), err |-> "nil"]
                    ELSE IF Len(r.missingIDs) = 0
                    THEN [skip |-> TRUE, msg |-> Msg("all", 0, Len(entries)),
                          err |-> "nil"]
                    ELSE [skip |-> FALSE,
                          msg |-> Msg("partial", Len(r.missingIDs), Len(entries)),
                          err |-> "nil"]

(***************************************************************************)
(* Inputs: ledger lines and links.                                         *)
(***************************************************************************)
LnOne      == Line(<<"t","i","k","t","o","k"," ","1">>)
LnTwo      == Line(<<"t","i","k","t","o","k"," ","2">>)
LnPadded   == Line(<<" ","t","i","k","t","o","k","\t","2"," ">>)
LnBlank    == Line(<<" "," ">>)
LnThree    == Line(<<"t","i","k","t","o","k"," ","1"," ","2">>)
LnPlatform == Line(<<"y","o","u","t","u","b","e"," ","1">>)
LnAlpha    == Line(<<"t","i","k","t","o","k"," ","1","x">>)
LnPlus     == Line(<<"t","i","k","t","o","k"," ","+","1">>)
LnHuge     == Line(<<"t","i","k","t","o","k"," ","9","9","9","9","9","9","9","9","9","9","9","9","9","9","9","9","9","9","9">>)
\* "tiktok 1" followed by 65536 more characters
LnTooLong  == [text |-> <<"t","i","k","t","o","k"," ","1">>, fill |-> MaxScanTokenSize]

LedgerLines ==
  { LnOne, LnTwo, LnPadded, LnBlank, LnThree, LnPlatform, LnAlpha, LnPlus, LnHuge,
    LnTooLong }

SeqsUpTo(S, n) == UNION { [1..k -> S] : k \in 0..n }

FilesOf(lineSet) ==
  { [status |-> "missing", lines |-> <<>>], [status |-> "ioerror", lines |-> <<>>] }
  \cup { [status |-> "ok", lines |-> ls] : ls \in SeqsUpTo(lineSet, MaxLedgerLines) }

\* the ledger files handed to the reader
LedgerFiles == FilesOf(LedgerLines)

\* the ledger files a batch is evaluated against
EvaluatorFiles == FilesOf({ LnOne, LnTwo, LnBlank, LnPlus, LnHuge, LnTooLong })

UrlVideo1 == <<"t",".","c","o","/","v","i","d","e","o","/","1">>
UrlVideo2 == <<"t",".","c","o","/","@","u","/","v","i","d","e","o","/","2","?","a">>
UrlV1     == <<"m",".","t",".","c","o","/","v","/","1",".","h","t","m","l">>
UrlPhoto  == <<"t",".","c","o","/","p","h","o","t","o","/","3">>
UrlHuge   == <<"t",".","c","o","/","v","i","d","e","o","/","9","9","9","9","9","9","9","9","9","9","9","9","9","9","9","9","9","9","9">>
UrlBoth   == <<"t",".","c","o","/","v","/","1","/","v","i","d","e","o","/","2">>

Links == { UrlVideo1, UrlVideo2, UrlV1, UrlPhoto, UrlHuge, UrlBoth }


\* VideoEntry as parseFavoriteVideosFromFile builds it: Link and Collection
\* are set, VideoID is left at its zero value
VideoEntry(link, collection) ==
  [Link |-> link, Collection |-> collection, VideoID |-> <<>>]

Favorites == <<"f","a","v","o","r","i","t","e","s">>
Liked     == <<"l","i","k","e","d">>

Batches == SeqsUpTo({ VideoEntry(u, Favorites) : u \in Links }, MaxBatch)

(***************************************************************************)
(* Captured output of the external process and the failure-extraction      *)
(* pass.                                                                   *)
(***************************************************************************)
UpperCase == <<"A","B","C","D","E","F","G","H","I","J","K","L","M","N","O","P","Q","R","S","T","U","V","W","X","Y","Z">>
LowerCase == <<"a","b","c","d","e","f","g","h","i","j","k","l","m","n","o","p","q","r","s","t","u","v","w","x","y","z">>

ToLowerChar(c) ==
  IF \E i \in 1..Len(UpperCase) : UpperCase[i] = c
  THEN LowerCase[CHOOSE i \in 1..Len(UpperCase) : UpperCase[i] = c]
  ELSE c

\* strings.ToLower
ToLower(s) == [i \in 1..Len(s) |-> ToLowerChar(s[i])]

\* categorizeError that looks for the network phrases first
categorizeError_TimeoutFirst(errorMsg) ==
  LET msgLower == ToLower(errorMsg)
  IN  IF \/ Contains(msgLower, <<"t","i","m","e","o","u","t">>)
         \/ Contains(msgLower, <<"c","o","n","n","e","c","t","i","o","n"," ","r","e","f","u","s","e","d">>)
      THEN "ErrorNetworkTimeout"
      ELSE IF Contains(msgLower, <<"i","p"," ","a","d","d","r","e","s","s"," ","i","s"," ","b","l","o","c","k","e","d">>)
      THEN "ErrorIPBlocked"
      ELSE IF \/ Contains(msgLower, <<"l","o","g"," ","i","n"," ","f","o","r"," ","a","c","c","e","s","s">>)
              \/ Contains(msgLower, <<"n","o","t"," ","c","o","m","f","o","r","t","a","b","l","e"," ","f","o","r"," ","s","o","m","e"," ","a","u","d","i","e","n","c","e","s">>)
      THEN "ErrorAuthRequired"
      ELSE IF \/ Contains(msgLower, <<"n","o","t"," ","a","v","a","i","l","a","b","l","e">>)
              \/ Contains(msgLower, <<"p","r","i","v","a","t","e"," ","v","i","d","e","o">>)
      THEN "ErrorNotAvailable"
      ELSE "ErrorOther"

\* categorizeError: the first phrase found in the lower-cased message decides
categorizeError(errorMsg) ==
  LET msgLower == ToLower(errorMsg)
  IN  IF Contains(msgLower, <<"i","p"," ","a","d","d","r","e","s","s"," ","i","s"," ","b","l","o","c","k","e","d">>)
      THEN "ErrorIPBlocked"
      ELSE IF \/ Contains(msgLower, <<"l","o","g"," ","i","n"," ","f","o","r"," ","a","c","c","e","s","s">>)
              \/ Contains(msgLower, <<"n","o","t"," ","c","o","m","f","o","r","t","a","b","l","e"," ","f","o","r"," ","s","o","m","e"," ","a","u","d","i","e","n","c","e","s">>)
      THEN "ErrorAuthRequired"
      ELSE IF \/ Contains(msgLower, <<"n","o","t"," ","a","v","a","i","l","a","b","l","e">>)
              \/ Contains(msgLower, <<"p","r","i","v","a","t","e"," ","v","i","d","e","o">>)
      THEN "ErrorNotAvailable"
      ELSE IF \/ Contains(msgLower, <<"t","i","m","e","o","u","t">>)
              \/ Contains(msgLower, <<"c","o","n","n","e","c","t","i","o","n"," ","r","e","f","u","s","e","d">>)
      THEN "ErrorNetworkTimeout"
      ELSE "ErrorOther"

OutPrivate == <<"E","R","R","O","R",":"," ","[","T","i","k","T","o","k","]"," ","1",":"," ","P","r","i","v","a","t","e"," ","v","i","d","e","o">>
OutBlocked == <<"E","R","R","O","R",":"," ","[","T","i","k","T","o","k","]"," ","2",":"," ","Y","o","u","r"," ","I","P"," ","a","d","d","r","e","s","s"," ","i","s"," ","b","l","o","c","k","e","d">>
OutNoId    == <<"E","R","R","O","R",":"," ","[","T","i","k","T","o","k","]"," ","b","o","o","m">>
OutDone    == <<"[","d","o","w","n","l","o","a","d","]"," ","1","0","0","%">>

OutErrInfo     == <<"E","R","R","O","R",":"," ","[","T","i","k","T","o","k","]"," ","1",":"," ","[","i","n","f","o","]"," ","g","o","n","e">>
OutErrInfoSkip == <<"E","R","R","O","R",":"," ","[","T","i","k","T","o","k","]"," ","1",":"," ","[","i","n","f","o","]"," ","h","a","s"," ","a","l","r","e","a","d","y"," ","b","e","e","n"," ","d","o","w","n","l","o","a","d","e","d">>
OutErrProgress == <<"E","R","R","O","R",":"," ","[","T","i","k","T","o","k","]"," ","1",":"," ","[","d","o","w","n","l","o","a","d","]"," ","D","o","w","n","l","o","a","d","i","n","g"," ","i","t","e","m"," ","1"," ","o","f"," ","2">>
OutSkip        == <<"a",".","m","p","4"," ","h","a","s"," ","a","l","r","e","a","d","y"," ","b","e","e","n"," ","d","o","w","n","l","o","a","d","e","d">>
OutProgress    == <<"[","d","o","w","n","l","o","a","d","]"," ","D","o","w","n","l","o","a","d","i","n","g"," ","i","t","e","m"," ","2"," ","o","f"," ","2">>

OutputLines ==
  { OutPrivate, OutBlocked, OutNoId, OutDone,
    OutErrInfo, OutErrInfoSkip, OutErrProgress, OutSkip, OutProgress }

\* every line strings.Split can give for captured output
CapturedLines == OutputLines \cup { <<>> }

RECURSIVE SkipSpaces(_, _)
\* the index after the run of white space of s that starts at index i (\s*)
SkipSpaces(s, i) == IF i <= Len(s) /\ IsSpace(s[i]) THEN SkipSpaces(s, i + 1) ELSE i

ErrorWord == <<"E","R","R","O","R",":">>
TikTokWord == <<"[","T","i","k","T","o","k","]">>

\* the pieces of a match of ERROR:\s*\[TikTok\]\s*(\d+):\s*(.+) that starts
\* at index i of the line
ErrorMatchAt(line, i) ==
  LET j     == SkipSpaces(line, i + Len(ErrorWord))
      k     == SkipSpaces(line, j + Len(TikTokWord))
      id    == DigitRun(line, k)
      colon == k + Len(id)
  IN  [ok   |-> /\ HasPrefixAt(line, i, ErrorWord)
                /\ HasPrefixAt(line, j, TikTokWord)
                /\ id # <<>>
                /\ colon < Len(line)
                /\ line[colon] = ":",
       id   |-> id,
       rest |-> SubSeq(line, colon + 1, Len(line))]

\* errorPattern.FindStringSubmatch: the leftmost match, if any
errorPattern(line) ==
  LET starts == { i \in 1..Len(line) : ErrorMatchAt(line, i).ok }
  IN  IF starts = {} THEN [ok |-> FALSE, id |-> <<>>, rest |-> <<>>]
      ELSE ErrorMatchAt(line, CHOOSE k \in starts : \A j \in starts : k <= j)

RECURSIVE idToURL(_, _)
\* the map from VideoID to Link built over the entries (a later entry
\* overwrites an earlier one), looked up at videoID; "" when absent
idToURL(batch, videoID) ==
  IF batch = <<>> THEN <<>>
  ELSE LET last == batch[Len(batch)]
       IN  IF last.VideoID # <<>> /\ last.VideoID = videoID THEN last.Link
           ELSE idToURL(SubSeq(batch, 1, Len(batch) - 1), videoID)

\* errorPattern and categorizeError are pure: what they give on each line
\* of captured output is evaluated once
ErrorMatches ==
  [line \in CapturedLines |->
     LET m == errorPattern(line)
     IN  IF m.ok
         THEN [ok |-> TRUE, VideoID |-> m.id, ErrorMessage |-> TrimSpace(m.rest),
               ErrorType |-> categorizeError(TrimSpace(m.rest))]
         ELSE [ok |-> FALSE, VideoID |-> <<>>, ErrorMessage |-> <<>>,
               ErrorType |-> "ErrorUnknown"]]

RECURSIVE extractFailures(_, _, _)
\* the loop of parseYtdlpOutput over the remaining lines
extractFailures(lines, batch, failures) ==
  IF lines = <<>> THEN failures
  ELSE LET m == ErrorMatches[Head(lines)]
       IN  extractFailures(Tail(lines), batch,
             IF m.ok
             THEN Append(failures,
                         [VideoID      |-> m.VideoID,
                          VideoURL     |-> idToURL(batch, m.VideoID),
                          ErrorMessage |-> m.ErrorMessage,
                          ErrorType    |-> m.ErrorType])
             ELSE failures)

parseYtdlpOutput(lines, batch) == extractFailures(lines, batch, <<>>)

RECURSIVE WriteLines(_)
\* the buffer after WriteString(line + "\n") for each line
WriteLines(lines) ==
  IF lines = <<>> THEN <<>> ELSE Head(lines) \o <<"\n">> \o WriteLines(Tail(lines))

\* strings.Split(s, "\n"): the pieces of s between its separators, in order
SplitLines(s) ==
  LET seps   == { i \in 1..Len(s) : s[i] = "\n" }
      n      == Cardinality(seps)
      cut(k) == IF k = 0 THEN 0
                ELSE IF k = n + 1 THEN Len(s) + 1
                ELSE CHOOSE i \in seps : Cardinality({ j \in seps : j <= i }) = k
  IN  [k \in 1..(n + 1) |-> SubSeq(s, cut(k - 1) + 1, cut(k) - 1)]

combineOutputLines(stdout, stderr) == SplitLines(stdout) \o SplitLines(stderr)

\* RealCommandRunner.Run on a process that fails to start, or that writes
\* the given lines on its two streams and exits with or without error
Run(proc) ==
  IF ~proc.started THEN [Combined |-> <<>>, err |-> "start"]
  ELSE [Combined |-> combineOutputLines(WriteLines(proc.stdout), WriteLines(proc.stderr)),
        err      |-> IF proc.exitErr THEN "exit" ELSE "nil"]

NotCalled == [called |-> FALSE]

\* the lines the external process of a session run writes
SessionOutputLines == { OutPrivate }

\* the ways the external process of a batch can behave
Processes ==
  { [started |-> FALSE, stdout |-> <<>>, stderr |-> <<>>, exitErr |-> TRUE] }
  \cup { [started |-> TRUE, stdout |-> o, stderr |-> e, exitErr |-> x] :
           o \in SeqsUpTo(SessionOutputLines, MaxStreamLines),
           e \in SeqsUpTo(SessionOutputLines, MaxStreamLines),
           x \in BOOLEAN }

\* what the runner returns for each process, evaluated once
RunOf == [proc \in Processes |-> Run(proc)]

(***************************************************************************)
(* One batch: runYtdlp / runYtdlpWithRunner.                               *)
(***************************************************************************)
DotDir == <<".">>
VideosName == <<"v","i","d","e","o","s">>

\* SkippedResult that books the skipped entries as failed
SkippedResult_AsFailed(name, batch) ==
  [Name |-> name, Attempted |-> Len(batch), Failed |-> Len(batch), Success |-> 0,
   FailureDetails |-> <<>>]

\* the CollectionResult returned when the skip evaluator says skip
SkippedResult(name, batch) ==
  [Name |-> name, Attempted |-> Len(batch), Failed |-> 0, Success |-> Len(batch),
   FailureDetails |-> <<>>]

\* BuildResult that counts every entry as a success
BuildResult_AllSuccess(name, batch, failures) ==
  [Name |-> name, Attempted |-> Len(batch), Failed |-> Len(failures),
   Success |-> Len(batch), FailureDetails |-> failures]

\* the CollectionResult built from the failures found in the output
BuildResult(name, batch, failures) ==
  [Name |-> name, Attempted |-> Len(batch), Failed |-> Len(failures),
   Success |-> Len(batch) - Len(failures), FailureDetails |-> failures]

\* SkipsRunner that never returns early
SkipsRunner_Never(check) == FALSE

\* SkipsRunner that takes an unreadable ledger as a reason to return early
SkipsRunner_OnError(check) == check.err # "nil" \/ check.skip

\* the pre-check lets the function return without running the process
SkipsRunner(check) == check.err = "nil" /\ check.skip

\* dir: filepath.Dir(outputName); file: the ledger at archivePath;
\* proc: how the external process behaves if the runner starts it
runYtdlpWithRunner(disableResume, dir, batch, file, proc) ==
  LET collectionName == IF dir = DotDir THEN VideosName ELSE dir
      check == IF disableResume THEN NotCalled
               ELSE [called |-> TRUE] @@ shouldSkipCollection(batch, file)
  IN  IF ~disableResume /\ SkipsRunner(check)
      THEN [check |-> check, runnerCalls |-> 0,
            output |-> [Combined |-> <<>>, err |-> "nil"],
            result |-> SkippedResult(collectionName, batch), err |-> "nil"]
      ELSE LET output   == RunOf[proc]
               failures == parseYtdlpOutput(output.Combined, batch)
           IN  [check |-> check, runnerCalls |-> 1, output |-> output,
                result |-> BuildResult(dir, batch, failures), err |-> output.err]

(***************************************************************************)
(* State.                                                                  *)
(***************************************************************************)
VARIABLES
  archiveFile,   \* the ledger file at archivePath, as the file system holds it
  entries,       \* the batch handed to the skip evaluator
  parsed,        \* what parseArchiveFile returned, once called
  decision,      \* what shouldSkipCollection returned, once called
  pc,            \* position of main
  config,        \* Config: OrganizeByCollection, DisableResume
  videoEntries,  \* the entries main loaded from the export
  pending,       \* collections the batch loop has not processed yet
  session,       \* DownloadSession
  lastBatch,     \* the last call of runYtdlpWithRunner: inputs and outcome
  current,       \* the batch main is processing, and how far it has got
  processes,     \* external processes started and not yet waited for
  events,        \* what the run has done so far
  resultsFile,   \* results.txt as the file system holds it
  cmd,           \* the external process of one call of Run and what it writes
  pipes,         \* lines written to stdoutPipe and stderrPipe and not yet read
  runner,        \* the call of RealCommandRunner.Run: its tasks and buffers
  console,       \* the lines echoed on os.Stdout and os.Stderr
  classifier     \* a call of categorizeError: the message and the result

ledgerVars == << archiveFile, entries, parsed, decision >>
sessionVars == << pc, config, videoEntries, pending, session, lastBatch >>
runVars == << current, processes, events, resultsFile >>
runnerVars == << cmd, pipes, runner, console >>
vars == << archiveFile, entries, parsed, decision,
           pc, config, videoEntries, pending, session, lastBatch,
           current, processes, events, resultsFile,
           cmd, pipes, runner, console, classifier >>

NoBatch == [ran |-> FALSE]

EmptySession ==
  [Collections |-> <<>>, TotalAttempted |-> 0, TotalSuccess |-> 0,
   TotalFailed |-> 0, finalized |-> FALSE]

\* main is between two batches
NoCurrent == [phase |-> "Idle"]

\* nothing has happened yet in the run
NoEvents ==
  [ended |-> <<>>, indexed |-> <<>>, finalized |-> 0, summaries |-> 0,
   reports |-> 0, warning |-> FALSE]

\* results.txt does not exist
AbsentFile == [state |-> "absent", content |-> <<>>]

\* the variables of the stepwise run when no stepwise run is modelled
RunIdle ==
  /\ current = NoCurrent
  /\ processes = 0
  /\ events = NoEvents
  /\ resultsFile = AbsentFile

\* the variables of a call of Run when no call is modelled
RunnerIdle ==
  /\ cmd = [script |-> <<>>, next |-> 1, exited |-> TRUE]
  /\ pipes = [stdout |-> <<>>, stderr |-> <<>>]
  /\ runner = [main |-> "idle"]
  /\ console = [stdout |-> <<>>, stderr |-> <<>>]

(***************************************************************************)
(* The ledger reader and the skip evaluator as functions of their inputs.  *)
(***************************************************************************)
InitLedger ==
  /\ \/ pc = "reader" /\ archiveFile \in LedgerFiles /\ entries = <<>>
     \/ pc = "evaluator" /\ archiveFile \in EvaluatorFiles /\ entries \in Batches
  /\ parsed = NotCalled
  /\ decision = NotCalled
  /\ config = [OrganizeByCollection |-> FALSE, DisableResume |-> FALSE]
  /\ videoEntries = <<>>
  /\ pending = {}
  /\ session = EmptySession
  /\ lastBatch = NoBatch
  /\ RunIdle
  /\ RunnerIdle
  /\ classifier = NotCalled

CallParseArchiveFile ==
  /\ pc = "reader"
  /\ pc' = "returned"
  /\ LET p == parseArchiveFile(archiveFile)
     IN  parsed' = [called |-> TRUE, archive |-> p.archive, err |-> p.err]
  /\ UNCHANGED << archiveFile, entries, decision >>
  /\ UNCHANGED << config, videoEntries, pending, session, lastBatch >>
  /\ UNCHANGED runVars
  /\ UNCHANGED runnerVars
  /\ UNCHANGED classifier

CallShouldSkipCollection ==
  /\ pc = "evaluator"
  /\ pc' = "returned"
  /\ LET d == shouldSkipCollection(entries, archiveFile)
     IN  decision' = [called |-> TRUE, skip |-> d.skip, msg |-> d.msg, err |-> d.err]
  /\ UNCHANGED << archiveFile, entries, parsed >>
  /\ UNCHANGED << config, videoEntries, pending, session, lastBatch >>
  /\ UNCHANGED runVars
  /\ UNCHANGED runnerVars
  /\ UNCHANGED classifier

NextLedger == CallParseArchiveFile \/ CallShouldSkipCollection

SpecLedger == InitLedger /\ [][NextLedger]_vars

(***************************************************************************)
(* A run of main from the prompt "run yt-dlp for you?" to the end.         *)
(***************************************************************************)
InvalidNameChars == {"<", ">", ":", "\"", "/", "\\", "|", "?", "*"}

RECURSIVE TrimCutset(_, _)
\* strings.Trim(s, cutset)
TrimCutset(s, cutset) ==
  IF s # <<>> /\ Head(s) \in cutset THEN TrimCutset(Tail(s), cutset)
  ELSE IF s # <<>> /\ s[Len(s)] \in cutset
       THEN TrimCutset(SubSeq(s, 1, Len(s) - 1), cutset)
       ELSE s

sanitizeCollectionName(name) ==
  LET replaced == [i \in 1..Len(name) |->
                     IF name[i] \in InvalidNameChars THEN "_" ELSE name[i]]
      trimmed  == TrimCutset(replaced, {" ", "."})
  IN  IF trimmed = <<>> THEN <<"u","n","k","n","o","w","n">> ELSE trimmed

getEntriesForCollection(all, collection) ==
  SelectSeq(all, LAMBDA e : sanitizeCollectionName(e.Collection) = collection)

RECURSIVE sumTotals_DropFailed(_, _)
\* sumTotals that does not accumulate the failed count
sumTotals_DropFailed(collections, acc) ==
  IF collections = <<>> THEN acc
  ELSE sumTotals_DropFailed(Tail(collections),
         [attempted |-> acc.attempted + Head(collections).Attempted,
          success   |-> acc.success + Head(collections).Success,
          failed    |-> Head(collections).Failed])

RECURSIVE sumTotals(_, _)
\* the loop of calculateSessionTotals over the remaining collections
sumTotals(collections, acc) ==
  IF collections = <<>> THEN acc
  ELSE sumTotals(Tail(collections),
         [attempted |-> acc.attempted + Head(collections).Attempted,
          success   |-> acc.success + Head(collections).Success,
          failed    |-> acc.failed + Head(collections).Failed])

calculateSessionTotals(collections) ==
  sumTotals(collections, [attempted |-> 0, success |-> 0, failed |-> 0])

\* the links of the exports of a session run
SessionLinks == { UrlVideo1, UrlPhoto }

\* what parseFavoriteVideosFromFile can return: the favorites, then the liked
Exports ==
  { f \o l : f \in SeqsUpTo({ VideoEntry(u, Favorites) : u \in SessionLinks }, MaxVideos),
             l \in SeqsUpTo({ VideoEntry(u, Liked) : u \in SessionLinks }, MaxVideos) }
  \cap SeqsUpTo({ VideoEntry(u, c) : u \in SessionLinks, c \in {Favorites, Liked} },
                MaxVideos)

\* the states in which a batch can find the ledger of its directory
SessionLedgerFiles ==
  { [status |-> "missing", lines |-> <<>>], [status |-> "ioerror", lines |-> <<>>] }
  \cup { [status |-> "ok", lines |-> ls] :
           ls \in { <<>>, <<LnOne>>, <<LnTwo>> } }

Init ==
  /\ pc = "prompt"
  /\ config \in [OrganizeByCollection : BOOLEAN, DisableResume : BOOLEAN]
  /\ videoEntries \in Exports
  /\ pending = {}
  /\ session = EmptySession
  /\ lastBatch = NoBatch
  /\ archiveFile = [status |-> "missing", lines |-> <<>>]
  /\ entries = <<>>
  /\ parsed = NotCalled
  /\ decision = NotCalled
  /\ RunIdle
  /\ RunnerIdle
  /\ classifier = NotCalled

\* the user answers the prompt; "y" starts the session and the batch loop
AnswerPrompt ==
  /\ pc = "prompt"
  /\ \E yes \in BOOLEAN :
       IF yes
       THEN /\ pc' = "batches"
            /\ session' = EmptySession
            /\ pending' = IF config.OrganizeByCollection
                          THEN { sanitizeCollectionName(videoEntries[i].Collection) :
                                   i \in 1..Len(videoEntries) }
                          ELSE { DotDir }
       ELSE /\ pc' = "done"
            /\ UNCHANGED << session, pending >>
  /\ UNCHANGED << config, videoEntries, lastBatch >>
  /\ UNCHANGED ledgerVars
  /\ UNCHANGED runVars
  /\ UNCHANGED runnerVars
  /\ UNCHANGED classifier

\* one iteration of the batch loop (the only one in the flat structure):
\* runYtdlp for the directory, then the result is appended to the session
ProcessBatch(dir) ==
  /\ pc = "batches"
  /\ dir \in pending
  /\ \E file \in SessionLedgerFiles, proc \in Processes :
       LET batch == IF config.OrganizeByCollection
                    THEN getEntriesForCollection(videoEntries, dir)
                    ELSE videoEntries
           r == runYtdlpWithRunner(config.DisableResume, dir, batch, file, proc)
       IN  /\ lastBatch' = [ran |-> TRUE, dir |-> dir, batch |-> batch,
                          check |-> r.check, runnerCalls |-> r.runnerCalls,
                          noOutput |-> r.output.Combined = <<>>,
                          result |-> r.result, err |-> r.err]
           /\ session' = [session EXCEPT !.Collections = Append(@, r.result)]
  /\ pending' = pending \ {dir}
  /\ UNCHANGED << pc, config, videoEntries >>
  /\ UNCHANGED ledgerVars
  /\ UNCHANGED runVars
  /\ UNCHANGED runnerVars
  /\ UNCHANGED classifier

\* after the loop: the session is finalized
FinalizeSession ==
  /\ pc = "batches"
  /\ pending = {}
  /\ LET t == calculateSessionTotals(session.Collections)
     IN  session' = [session EXCEPT !.TotalAttempted = t.attempted,
                                    !.TotalSuccess = t.success,
                                    !.TotalFailed = t.failed,
                                    !.finalized = TRUE]
  /\ pc' = "done"
  /\ UNCHANGED << config, videoEntries, pending, lastBatch >>
  /\ UNCHANGED ledgerVars
  /\ UNCHANGED runVars
  /\ UNCHANGED runnerVars
  /\ UNCHANGED classifier

Next ==
  \/ AnswerPrompt
  \/ \E dir \in pending : ProcessBatch(dir)
  \/ FinalizeSession

Spec == Init /\ [][Next]_vars

(***************************************************************************)
(* The durable report: writeResultsFile and writeTroubleshootingTips.      *)
(* A file is the sequence of its lines; every write of the code ends in a  *)
(* newline.  The clock is not modelled: the header lines carry no time.    *)
(***************************************************************************)
RECURSIVE Itoa(_)
\* the decimal digits of n >= 0 (%d)
Itoa(n) ==
  LET d == CHOOSE c \in Digit : DigitVal(c) = n % 10
  IN  IF n < 10 THEN << d >> ELSE Append(Itoa(n \div 10), d)

\* strings.Repeat(c, n)
Repeat(c, n) == [i \in 1..n |-> c]

RuleWidth == 80
GroupRuleWidth == 50

\* ErrorType.String
ErrorTypeString(e) ==
  CASE e = "ErrorIPBlocked" -> <<"I","P"," ","B","l","o","c","k","e","d">>
    [] e = "ErrorAuthRequired" -> <<"A","u","t","h","e","n","t","i","c","a","t","i","o","n"," ","R","e","q","u","i","r","e","d">>
    [] e = "ErrorNotAvailable" -> <<"N","o","t"," ","A","v","a","i","l","a","b","l","e">>
    [] e = "ErrorNetworkTimeout" -> <<"N","e","t","w","o","r","k"," ","T","i","m","e","o","u","t">>
    [] OTHER -> <<"O","t","h","e","r"," ","E","r","r","o","r">>

\* the header and the summary numbers of a section
SectionHead(s) ==
  << <<>>,
     Repeat("=", RuleWidth),
     <<"T","i","k","T","o","k"," ","V","i","d","e","o"," ","D","o","w","n","l","o","a","d","e","r"," ","-"," ","S","e","s","s","i","o","n"," ","R","e","s","u","l","t","s">>,
     <<"G","e","n","e","r","a","t","e","d",":"," ">>,
     <<"D","u","r","a","t","i","o","n",":"," ">>,
     Repeat("=", RuleWidth),
     <<>>,
     <<"S","U","M","M","A","R","Y">>,
     <<"=","=","=","=","=","=","=">>,
     <<"T","o","t","a","l"," ","V","i","d","e","o","s"," ","A","t","t","e","m","p","t","e","d",":"," ">> \o Itoa(s.TotalAttempted),
     <<"S","u","c","c","e","s","s","f","u","l","l","y"," ","D","o","w","n","l","o","a","d","e","d",":"," ">> \o Itoa(s.TotalSuccess),
     <<"F","a","i","l","e","d",":"," ">> \o Itoa(s.TotalFailed),
     <<>> >>

RECURSIVE FailureLines(_, _)
\* the numbered entries of one collection, from the i-th failure on
FailureLines(details, i) ==
  IF i > Len(details) THEN <<>>
  ELSE << Itoa(i) \o <<"."," ","V","i","d","e","o"," ","I","D",":"," ">> \o details[i].VideoID,
          <<" "," "," ","U","R","L",":"," ">> \o details[i].VideoURL,
          <<" "," "," ","E","r","r","o","r"," ","T","y","p","e",":"," ">> \o ErrorTypeString(details[i].ErrorType),
          <<" "," "," ","E","r","r","o","r",":"," ">> \o details[i].ErrorMessage,
          <<>> >>
       \o FailureLines(details, i + 1)

RECURSIVE CollectionLines(_)
\* the groups of the collections that have failures
CollectionLines(collections) ==
  IF collections = <<>> THEN <<>>
  ELSE LET col == Head(collections)
       IN  (IF col.FailureDetails = <<>> THEN <<>>
            ELSE << <<"C","o","l","l","e","c","t","i","o","n",":"," ">> \o col.Name \o <<" ","(">>
                      \o Itoa(Len(col.FailureDetails)) \o <<" ","f","a","i","l","u","r","e","s",")">>,
                    Repeat("-", GroupRuleWidth),
                    <<>> >>
                 \o FailureLines(col.FailureDetails, 1))
           \o CollectionLines(Tail(collections))

RECURSIVE errorCounts(_, _)
\* how many failures of the session have the given ErrorType
errorCounts(collections, e) ==
  IF collections = <<>> THEN 0
  ELSE Len(SelectSeq(Head(collections).FailureDetails, LAMBDA f : f.ErrorType = e))
       + errorCounts(Tail(collections), e)

\* TipParagraph that writes the paragraph of a category that did not occur
TipParagraph_Always(collections, e, title, advice) ==
  << title \o <<" ","(">> \o Itoa(errorCounts(collections, e)) \o <<" ","v","i","d","e","o","s",")",":">> >> \o advice

\* one paragraph of tips, written only for a category that occurred
TipParagraph(collections, e, title, advice) ==
  LET count == errorCounts(collections, e)
  IN  IF count > 0
      THEN << title \o <<" ","(">> \o Itoa(count) \o <<" ","v","i","d","e","o","s",")",":">> >> \o advice
      ELSE <<>>

writeTroubleshootingTips(collections) ==
  TipParagraph(collections, "ErrorIPBlocked",
    <<"I","P"," ","B","l","o","c","k","e","d">>,
    << <<" "," ","-"," ","Y","o","u","r"," ","I","P"," ","m","a","y"," ","b","e"," ","r","a","t","e","-","l","i","m","i","t","e","d"," ","b","y"," ","T","i","k","T","o","k">>,
       <<" "," ","-"," ","T","r","y"," ","a","g","a","i","n"," ","a","f","t","e","r"," ","w","a","i","t","i","n","g"," ","3","0","-","6","0"," ","m","i","n","u","t","e","s">>,
       <<" "," ","-"," ","C","o","n","s","i","d","e","r"," ","u","s","i","n","g"," ","a"," ","V","P","N"," ","o","r"," ","d","i","f","f","e","r","e","n","t"," ","n","e","t","w","o","r","k">>,
       <<>> >>)
  \o
  TipParagraph(collections, "ErrorAuthRequired",
    <<"A","u","t","h","e","n","t","i","c","a","t","i","o","n"," ","R","e","q","u","i","r","e","d">>,
    << <<" "," ","-"," ","T","h","e","s","e"," ","v","i","d","e","o","s"," ","r","e","q","u","i","r","e"," ","l","o","g","i","n"," ","t","o"," ","v","i","e","w"," ","(","a","g","e","-","r","e","s","t","r","i","c","t","e","d"," ","c","o","n","t","e","n","t",")">>,
       <<" "," ","-"," ","R","e","t","r","y"," ","w","i","t","h"," ","c","o","o","k","i","e","s"," ","t","o"," ","d","o","w","n","l","o","a","d"," ","t","h","e","s","e"," ","v","i","d","e","o","s",":">>,
       <<" "," "," "," ","*"," ","U","s","e"," ","-","-","c","o","o","k","i","e","s"," ","c","o","o","k","i","e","s",".","t","x","t"," ","(","N","e","t","s","c","a","p","e"," ","f","o","r","m","a","t",")">>,
       <<" "," "," "," ","*"," ","O","R"," ","u","s","e"," ","-","-","c","o","o","k","i","e","s","-","f","r","o","m","-","b","r","o","w","s","e","r"," ","f","i","r","e","f","o","x">>,
       <<" "," ","-"," ","S","e","e",":"," ","h","t","t","p","s",":","/","/","g","i","t","h","u","b",".","c","o","m","/","y","t","-","d","l","p","/","y","t","-","d","l","p","/","w","i","k","i","/","F","A","Q","#","h","o","w","-","d","o","-","i","-","p","a","s","s","-","c","o","o","k","i","e","s","-","t","o","-","y","t","-","d","l","p">>,
       <<" "," "," "," ","N","B",":"," ","c","o","o","k","i","e","s","-","f","r","o","m","-","b","r","o","w","s","e","r"," ","m","a","y"," ","n","o","t"," ","w","o","r","k"," ","w","i","t","h"," ","C","h","r","o","m","i","u","m","-","b","a","s","e","d"," ","b","r","o","w","s","e","r","s",","," ","r","e","f","e","r"," ","t","o"," ","y","t","-","d","l","p"," ","i","s","s","u","e"," ","7","2","7","1"," ","h","t","t","p","s",":","/","/","g","i","t","h","u","b",".","c","o","m","/","y","t","-","d","l","p","/","y","t","-","d","l","p","/","i","s","s","u","e","s","/","7","2","7","1">>,
       <<>> >>)
  \o
  TipParagraph(collections, "ErrorNotAvailable",
    <<"N","o","t"," ","A","v","a","i","l","a","b","l","e">>,
    << <<" "," ","-"," ","V","i","d","e","o","s"," ","m","a","y"," ","b","e"," ","d","e","l","e","t","e","d",","," ","p","r","i","v","a","t","e",","," ","o","r"," ","r","e","g","i","o","n","-","l","o","c","k","e","d">>,
       <<" "," ","-"," ","C","h","e","c","k"," ","i","f"," ","t","h","e"," ","v","i","d","e","o"," ","s","t","i","l","l"," ","e","x","i","s","t","s"," ","b","y"," ","o","p","e","n","i","n","g"," ","t","h","e"," ","U","R","L">>,
       <<>> >>)
  \o
  TipParagraph(collections, "ErrorNetworkTimeout",
    <<"N","e","t","w","o","r","k"," ","T","i","m","e","o","u","t">>,
    << <<" "," ","-"," ","C","h","e","c","k"," ","y","o","u","r"," ","i","n","t","e","r","n","e","t"," ","c","o","n","n","e","c","t","i","o","n">>,
       <<" "," ","-"," ","R","e","t","r","y"," ","t","h","e"," ","d","o","w","n","l","o","a","d"," ","s","e","s","s","i","o","n">>,
       <<>> >>)

\* the lines one call of writeResultsFile writes
Section(s) ==
  SectionHead(s)
  \o (IF s.TotalFailed = 0
      THEN << <<"A","l","l"," ","v","i","d","e","o","s"," ","d","o","w","n","l","o","a","d","e","d"," ","s","u","c","c","e","s","s","f","u","l","l","y","!">> >>
      ELSE << <<"F","A","I","L","E","D"," ","D","O","W","N","L","O","A","D","S">>,
              <<"=","=","=","=","=","=","=","=","=","=","=","=","=","=","=","=">>,
              <<>> >>
           \o CollectionLines(s.Collections)
           \o << <<>>,
                 <<"T","R","O","U","B","L","E","S","H","O","O","T","I","N","G"," ","T","I","P","S">>,
                 <<"=","=","=","=","=","=","=","=","=","=","=","=","=","=","=","=","=","=","=","=">> >>
           \o writeTroubleshootingTips(s.Collections))

\* writeResultsFile that opens the file for writing without O_APPEND
writeResultsFile_Truncating(s, file) ==
  IF file.state = "unwritable" THEN [file |-> file, err |-> "open"]
  ELSE [file |-> [state |-> "present", content |-> Section(s)], err |-> "nil"]

\* os.OpenFile(O_APPEND|O_CREATE|O_WRONLY) and the writes of one section;
\* a file that cannot be opened is left as it is and the error is returned
writeResultsFile(s, file) ==
  IF file.state = "unwritable" THEN [file |-> file, err |-> "open"]
  ELSE [file |-> [state |-> "present", content |-> file.content \o Section(s)],
        err  |-> "nil"]

(***************************************************************************)
(* The same run of main, step by step: per batch the skip check, the       *)
(* external process, the classification of its output, the bookkeeping of  *)
(* main and the index; then the totals, the summary and the report.        *)
(***************************************************************************)
\* the process that cannot be started
FailedStart == [started |-> FALSE, stdout |-> <<>>, stderr |-> <<>>, exitErr |-> TRUE]

NoOutput == [Combined |-> <<>>, err |-> "nil"]

NoResult == [Name |-> <<>>, Attempted |-> 0, Failed |-> 0, Success |-> 0,
             FailureDetails |-> <<>>]

\* the collections the batch loop of main goes through
RunDirs ==
  IF config.OrganizeByCollection
  THEN { sanitizeCollectionName(videoEntries[i].Collection) : i \in 1..Len(videoEntries) }
  ELSE { DotDir }

\* Remaining that leaves the collection in the loop
Remaining_Revisit(collections, dir) == collections

\* the loop over the collections takes each of them once
Remaining(collections, dir) == collections \ { dir }

\* results.txt as a run can find it: absent, left by an earlier run whose
\* downloads all succeeded, or not writable
RunResultsFiles ==
  { AbsentFile,
    [state |-> "present", content |-> Section(EmptySession)],
    [state |-> "unwritable", content |-> <<>> ] }

InitRun ==
  /\ pc = "prompt"
  /\ config \in [OrganizeByCollection : BOOLEAN, DisableResume : BOOLEAN]
  /\ videoEntries \in Exports
  /\ pending = {}
  /\ session = EmptySession
  /\ lastBatch = NoBatch
  /\ archiveFile = [status |-> "missing", lines |-> <<>>]
  /\ entries = <<>>
  /\ parsed = NotCalled
  /\ decision = NotCalled
  /\ current = NoCurrent
  /\ processes = 0
  /\ events = NoEvents
  /\ resultsFile \in RunResultsFiles
  /\ RunnerIdle
  /\ classifier = NotCalled

\* BatchDone that lets the loop go on while the external process runs
BatchDone_WhileRunning(cur) == cur.phase \in { "Idle", "Running" }

\* runYtdlp and generateCollectionIndex are synchronous calls: the loop goes
\* on to the next collection when both have returned
BatchDone(cur) == cur.phase = "Idle"

\* main takes the next collection and calls runYtdlp for it
BeginBatch(dir) ==
  /\ pc = "batches"
  /\ BatchDone(current)
  /\ dir \in pending
  /\ current' = [phase  |-> IF config.DisableResume THEN "Invoke" ELSE "SkipCheck",
                 dir    |-> dir,
                 batch  |-> IF config.OrganizeByCollection
                            THEN getEntriesForCollection(videoEntries, dir)
                            ELSE videoEntries,
                 check  |-> NotCalled,
                 output |-> NoOutput,
                 result |-> NoResult]
  /\ pending' = Remaining(pending, dir)
  /\ UNCHANGED << pc, config, videoEntries, session, lastBatch >>
  /\ UNCHANGED << processes, events, resultsFile >>
  /\ UNCHANGED ledgerVars
  /\ UNCHANGED runnerVars
  /\ UNCHANGED classifier

\* the pre-check of runYtdlpWithRunner: shouldSkipCollection on the ledger
\* of the directory; skip=true without error returns the skipped result
CheckSkip ==
  /\ pc = "batches"
  /\ current.phase = "SkipCheck"
  /\ \E file \in SessionLedgerFiles :
       LET check == [called |-> TRUE] @@ shouldSkipCollection(current.batch, file)
           collectionName == IF current.dir = DotDir THEN VideosName ELSE current.dir
       IN  IF SkipsRunner(check)
           THEN /\ current' = [current EXCEPT
                                 !.phase = "Skipped", !.check = check,
                                 !.result = SkippedResult(collectionName, current.batch)]
                /\ events' = [events EXCEPT !.ended = Append(@, current.dir)]
           ELSE /\ current' = [current EXCEPT !.phase = "Invoke", !.check = check]
                /\ UNCHANGED events
  /\ UNCHANGED << pc, config, videoEntries, pending, session, lastBatch >>
  /\ UNCHANGED << processes, resultsFile >>
  /\ UNCHANGED ledgerVars
  /\ UNCHANGED runnerVars
  /\ UNCHANGED classifier

\* runner.Run: cmd.Start either fails, and Run returns at once with the
\* error, or starts the external process
StartProcess ==
  /\ pc = "batches"
  /\ current.phase = "Invoke"
  /\ \E started \in BOOLEAN :
       IF started
       THEN /\ current' = [current EXCEPT !.phase = "Running"]
            /\ processes' = processes + 1
       ELSE /\ current' = [current EXCEPT !.phase = "Classifying",
                                          !.output = RunOf[FailedStart]]
            /\ UNCHANGED processes
  /\ UNCHANGED << pc, config, videoEntries, pending, session, lastBatch >>
  /\ UNCHANGED << events, resultsFile >>
  /\ UNCHANGED ledgerVars
  /\ UNCHANGED runnerVars
  /\ UNCHANGED classifier

\* the rest of runner.Run: both streams are drained, the process is waited
\* for and the captured output is returned
ProcessExits ==
  /\ pc = "batches"
  /\ current.phase = "Running"
  /\ \E proc \in Processes :
       /\ proc.started
       /\ current' = [current EXCEPT !.phase = "Classifying", !.output = RunOf[proc]]
  /\ processes' = processes - 1
  /\ UNCHANGED << pc, config, videoEntries, pending, session, lastBatch >>
  /\ UNCHANGED << events, resultsFile >>
  /\ UNCHANGED ledgerVars
  /\ UNCHANGED runnerVars
  /\ UNCHANGED classifier

\* parseYtdlpOutput on the captured output and the result built from it
Classify ==
  /\ pc = "batches"
  /\ current.phase = "Classifying"
  /\ LET failures == parseYtdlpOutput(current.output.Combined, current.batch)
     IN  current' = [current EXCEPT
                       !.phase = "Completed",
                       !.result = BuildResult(current.dir, current.batch, failures)]
  /\ events' = [events EXCEPT !.ended = Append(@, current.dir)]
  /\ UNCHANGED << pc, config, videoEntries, pending, session, lastBatch >>
  /\ UNCHANGED << processes, resultsFile >>
  /\ UNCHANGED ledgerVars
  /\ UNCHANGED runnerVars
  /\ UNCHANGED classifier

\* main appends the result runYtdlp returned to the session
RecordResult ==
  /\ pc = "batches"
  /\ current.phase \in { "Skipped", "Completed" }
  /\ session' = [session EXCEPT !.Collections = Append(@, current.result)]
  /\ current' = [current EXCEPT !.phase = "Index"]
  /\ UNCHANGED << pc, config, videoEntries, pending, lastBatch >>
  /\ UNCHANGED << processes, events, resultsFile >>
  /\ UNCHANGED ledgerVars
  /\ UNCHANGED runnerVars
  /\ UNCHANGED classifier

\* generateCollectionIndex for the batch; its failure is only a warning
GenerateIndex ==
  /\ pc = "batches"
  /\ current.phase = "Index"
  /\ events' = [events EXCEPT !.indexed = Append(@, current.dir)]
  /\ current' = NoCurrent
  /\ UNCHANGED << pc, config, videoEntries, pending, session, lastBatch >>
  /\ UNCHANGED << processes, resultsFile >>
  /\ UNCHANGED ledgerVars
  /\ UNCHANGED runnerVars
  /\ UNCHANGED classifier

\* after the loop: calculateSessionTotals
AggregateSession ==
  /\ pc = "batches"
  /\ current.phase = "Idle"
  /\ pending = {}
  /\ LET t == calculateSessionTotals(session.Collections)
     IN  session' = [session EXCEPT !.TotalAttempted = t.attempted,
                                    !.TotalSuccess = t.success,
                                    !.TotalFailed = t.failed,
                                    !.finalized = TRUE]
  /\ events' = [events EXCEPT !.finalized = @ + 1]
  /\ pc' = "summary"
  /\ UNCHANGED << config, videoEntries, pending, lastBatch >>
  /\ UNCHANGED << current, processes, resultsFile >>
  /\ UNCHANGED ledgerVars
  /\ UNCHANGED runnerVars
  /\ UNCHANGED classifier

\* printSessionSummary
PrintSummary ==
  /\ pc = "summary"
  /\ events' = [events EXCEPT !.summaries = @ + 1]
  /\ pc' = "report"
  /\ UNCHANGED << config, videoEntries, pending, session, lastBatch >>
  /\ UNCHANGED << current, processes, resultsFile >>
  /\ UNCHANGED ledgerVars
  /\ UNCHANGED runnerVars
  /\ UNCHANGED classifier

\* writeResultsFile; an error is printed as a warning and main returns
WriteReport ==
  /\ pc = "report"
  /\ LET r == writeResultsFile(session, resultsFile)
     IN  /\ resultsFile' = r.file
         /\ events' = [events EXCEPT !.reports = @ + 1, !.warning = (r.err # "nil")]
  /\ pc' = "done"
  /\ UNCHANGED << config, videoEntries, pending, session, lastBatch >>
  /\ UNCHANGED << current, processes >>
  /\ UNCHANGED ledgerVars
  /\ UNCHANGED runnerVars
  /\ UNCHANGED classifier

\* the steps main takes once the user has answered "y"
RunSteps ==
  \/ \E dir \in pending : BeginBatch(dir)
  \/ CheckSkip
  \/ StartProcess
  \/ ProcessExits
  \/ Classify
  \/ RecordResult
  \/ GenerateIndex
  \/ AggregateSession
  \/ PrintSummary
  \/ WriteReport

NextRun == AnswerPrompt \/ RunSteps

SpecRun == InitRun /\ [][NextRun]_vars

\* main runs on by itself, and an external process that was started comes
\* to an end; only the answer to the prompt is the user's to give
FairSpecRun == SpecRun /\ WF_vars(RunSteps)

(***************************************************************************)
(* RealCommandRunner.Run: the external process writes lines on its two     *)
(* pipes, one task drains each pipe, main joins both tasks, waits for the  *)
(* process and returns the captured output.                                *)
(***************************************************************************)
RECURSIVE AtoiVal(_, _)
\* the value of a run of decimal digits (strconv.Atoi without overflow)
AtoiVal(digits, acc) ==
  IF digits = <<>> THEN acc ELSE AtoiVal(Tail(digits), 10 * acc + DigitVal(Head(digits)))

\* the pieces of a match of \[download\] Downloading item (\d+) of (\d+)
\* that starts at index i of the line
ProgressMatchAt(line, i) ==
  LET word   == <<"[","d","o","w","n","l","o","a","d","]"," ","D","o","w","n","l","o","a","d","i","n","g"," ","i","t","e","m"," ">>
      of     == <<" ","o","f"," ">>
      first  == DigitRun(line, i + Len(word))
      j      == i + Len(word) + Len(first)
      second == DigitRun(line, j + Len(of))
  IN  [ok |-> /\ HasPrefixAt(line, i, word)
              /\ first # <<>>
              /\ HasPrefixAt(line, j, of)
              /\ second # <<>>,
       first |-> first, second |-> second]

\* parseProgressLine: (current, total, isProgress, err)
parseProgressLine(line) ==
  LET starts == { i \in 1..Len(line) : ProgressMatchAt(line, i).ok }
  IN  IF starts = {}
      THEN [current |-> 0, total |-> 0, isProgress |-> FALSE, err |-> "nil"]
      ELSE LET m == ProgressMatchAt(line, CHOOSE k \in starts : \A j \in starts : k <= j)
           IN  IF ParseIntOk(m.first) /\ ParseIntOk(m.second)
               THEN [current |-> AtoiVal(m.first, 0), total |-> AtoiVal(m.second, 0),
                     isProgress |-> TRUE, err |-> "nil"]
               ELSE [current |-> 0, total |-> 0, isProgress |-> FALSE, err |-> "atoi"]

isSkipLine(line) ==
  \/ Contains(line, <<"h","a","s"," ","a","l","r","e","a","d","y"," ","b","e","e","n"," ","d","o","w","n","l","o","a","d","e","d">>)
  \/ Contains(line, <<"h","a","s"," ","a","l","r","e","a","d","y"," ","b","e","e","n"," ","r","e","c","o","r","d","e","d"," ","i","n"," ","t","h","e"," ","a","r","c","h","i","v","e">>)

verbosePatterns ==
  { <<"[","g","e","n","e","r","i","c","]"," ","E","x","t","r","a","c","t","i","n","g"," ","U","R","L",":">>,
    <<"[","g","e","n","e","r","i","c","]"," ">>,
    <<":"," ","D","o","w","n","l","o","a","d","i","n","g"," ","w","e","b","p","a","g","e">>,
    <<"[","r","e","d","i","r","e","c","t","]"," ","F","o","l","l","o","w","i","n","g"," ","r","e","d","i","r","e","c","t"," ","t","o">>,
    <<"[","T","i","k","T","o","k","]"," ","E","x","t","r","a","c","t","i","n","g"," ","U","R","L",":">>,
    <<"[","i","n","f","o","]"," ">>,
    <<":"," ","D","o","w","n","l","o","a","d","i","n","g"," ","1"," ","f","o","r","m","a","t","(","s",")",":">>,
    <<"V","i","d","e","o"," ","t","h","u","m","b","n","a","i","l"," ","i","s"," ","a","l","r","e","a","d","y"," ","p","r","e","s","e","n","t">>,
    <<"V","i","d","e","o"," ","m","e","t","a","d","a","t","a"," ","i","s"," ","a","l","r","e","a","d","y"," ","p","r","e","s","e","n","t">>,
    <<"[","d","o","w","n","l","o","a","d","]"," ","1","0","0","%">> }

isVerboseLine(line) ==
  IF \/ Contains(line, <<"E","R","R","O","R",":">>)
     \/ Contains(line, <<"W","A","R","N","I","N","G",":">>)
  THEN FALSE
  ELSE \E pattern \in verbosePatterns : Contains(line, pattern)

isErrorLine(line) == Contains(line, <<"E","R","R","O","R",":"," ","[","T","i","k","T","o","k","]">>)

\* the lines the external process of a call of Run writes on its stdout;
\* the last one is as long as the scanner's limit
LongLine == [text |-> <<"x">>, fill |-> MaxScanTokenSize]

RunnerStdoutLines ==
  { Line(OutErrInfo), Line(OutErrInfoSkip), Line(OutErrProgress),
    Line(OutDone), Line(OutSkip), Line(OutProgress), LongLine }

\* and on its stderr
RunnerStderrLines == { Line(OutBlocked) }

\* the classification of the stdout lines is pure and is evaluated once
StdoutChecks ==
  [line \in { l.text : l \in RunnerStdoutLines } |->
     [progress |-> parseProgressLine(line), skip |-> isSkipLine(line),
      error |-> isErrorLine(line), verbose |-> isVerboseLine(line)]]

\* r.ProgressRenderer != nil && r.ProgressState != nil
Tracking(r) == r.renderer # "nil" /\ r.attached

\* r.ProgressRenderer != nil && r.ProgressRenderer.enabled
Enabled(r) == r.renderer = "enabled"

\* renderProgress: nothing unless the renderer is enabled; otherwise one more
\* progress bar is written and lastLineLen is positive
renderProgress(r) ==
  IF Enabled(r) THEN [r EXCEPT !.bars = @ + 1, !.drawn = TRUE] ELSE r

\* clearProgress: nothing unless the renderer is enabled and a bar is drawn
clearProgress(r) ==
  IF Enabled(r) /\ r.drawn THEN [r EXCEPT !.drawn = FALSE] ELSE r

\* the body of the stdout loop after the line is captured: the runner it
\* leaves (ProgressState, renderer) and whether the line is printed on
\* os.Stdout
StdoutLine(line, r) ==
  LET c     == StdoutChecks[line]
      print(q) == [runner |-> IF Enabled(q) THEN renderProgress(clearProgress(q)) ELSE q,
                   echo   |-> TRUE]
  IN  IF ~Tracking(r) THEN print(r)
      ELSE IF c.progress.err = "nil" /\ c.progress.isProgress
      THEN [runner |-> renderProgress([r EXCEPT !.state.CurrentIndex = c.progress.current,
                                               !.state.TotalVideos = c.progress.total]),
            echo   |-> FALSE]
      ELSE IF c.skip
      THEN [runner |-> renderProgress([r EXCEPT !.state.CurrentIndex = @ + 1,
                                               !.state.SuccessCount = @ + 1]),
            echo   |-> FALSE]
      ELSE LET q == IF c.error
                    THEN renderProgress([r EXCEPT !.state.FailureCount = @ + 1])
                    ELSE r
           IN  IF Enabled(q) /\ c.verbose
               THEN [runner |-> q, echo |-> FALSE]
               ELSE print(q)

RECURSIVE Interleavings(_, _)
\* the orders in which the lines of two streams can be written
Interleavings(a, b) ==
  IF a = <<>> THEN { b }
  ELSE IF b = <<>> THEN { a }
  ELSE { <<Head(a)>> \o s : s \in Interleavings(Tail(a), b) }
       \cup { <<Head(b)>> \o s : s \in Interleavings(a, Tail(b)) }

OnStream(stream, lines) == [i \in 1..Len(lines) |-> [stream |-> stream, line |-> lines[i]]]

\* what the external process writes, in the order it writes it
Scripts ==
  UNION { Interleavings(OnStream("stdout", o), OnStream("stderr", e)) :
            o \in SeqsUpTo(RunnerStdoutLines, MaxStdoutLines),
            e \in SeqsUpTo(RunnerStderrLines, MaxStreamLines) }

\* the ProgressRenderer and ProgressState a RealCommandRunner is built with:
\* runYtdlp attaches both (enabled) or neither; other callers may attach a
\* renderer that is not enabled, with or without a state. (An enabled
\* renderer without a state makes Run dereference nil, and a state without a
\* renderer is never looked at: neither is among the calls modelled.)
Runners ==
  { [renderer |-> x[1], attached |-> x[2]] :
      x \in { <<"nil", FALSE>>, <<"disabled", FALSE>>,
              <<"disabled", TRUE>>, <<"enabled", TRUE>> } }

\* the batch whose process the call runs
RunnerBatch == << VideoEntry(UrlVideo1, Favorites), VideoEntry(UrlVideo2, Favorites) >>

\* cmd.Start has succeeded and both tasks have been started; the
\* ProgressState is the one runYtdlp builds for the batch
InitRunner ==
  /\ cmd \in { [script |-> s, next |-> 1, exited |-> FALSE] : s \in Scripts }
  /\ pipes = [stdout |-> <<>>, stderr |-> <<>>]
  /\ runner \in { [main |-> "join", joined |-> 0, done |-> 0,
                   renderer |-> r.renderer, attached |-> r.attached,
                   bars |-> 0, drawn |-> FALSE,
                   state |-> [CurrentIndex |-> 0, TotalVideos |-> Len(RunnerBatch),
                              SuccessCount |-> 0, FailureCount |-> 0],
                   stdoutTask |-> "scan", stderrTask |-> "scan",
                   stdoutBuf |-> <<>>, stderrBuf |-> <<>>,
                   output |-> NoOutput] : r \in Runners }
  /\ console = [stdout |-> <<>>, stderr |-> <<>>]
  /\ pc = "run"
  /\ config = [OrganizeByCollection |-> FALSE, DisableResume |-> FALSE]
  /\ videoEntries = <<>>
  /\ pending = {}
  /\ session = EmptySession
  /\ lastBatch = NoBatch
  /\ archiveFile = [status |-> "missing", lines |-> <<>>]
  /\ entries = <<>>
  /\ parsed = NotCalled
  /\ decision = NotCalled
  /\ RunIdle
  /\ classifier = NotCalled

\* the external process writes its next line; the write blocks while the
\* pipe is full
Emit ==
  /\ ~cmd.exited
  /\ cmd.next <= Len(cmd.script)
  /\ LET e == cmd.script[cmd.next]
     IN  /\ Len(pipes[e.stream]) < PipeCapacity
         /\ pipes' = [pipes EXCEPT ![e.stream] = Append(@, e.line)]
  /\ cmd' = [cmd EXCEPT !.next = @ + 1]
  /\ UNCHANGED << runner, console >>
  /\ UNCHANGED << ledgerVars, sessionVars, runVars, classifier >>

\* the external process has written everything and exits; its ends of the
\* pipes are closed
Exit ==
  /\ ~cmd.exited
  /\ cmd.next > Len(cmd.script)
  /\ cmd' = [cmd EXCEPT !.exited = TRUE]
  /\ UNCHANGED << pipes, runner, console >>
  /\ UNCHANGED << ledgerVars, sessionVars, runVars, classifier >>

\* one turn of the stdout task: scanner.Scan gives the next line, which is
\* captured, classified and perhaps printed; at the end of the stream, or at
\* a line the scanner cannot hold, the loop ends and the task reports done
ScanStdout ==
  /\ runner.main # "idle"
  /\ runner.stdoutTask = "scan"
  /\ IF pipes.stdout # <<>> /\ LineLen(Head(pipes.stdout)) < MaxScanTokenSize
     THEN LET line == Head(pipes.stdout).text
              h    == StdoutLine(line, runner)
          IN  /\ runner' = [h.runner EXCEPT !.stdoutBuf = @ \o line \o <<"\n">>]
              /\ console' = IF h.echo
                            THEN [console EXCEPT !.stdout = Append(@, line)]
                            ELSE console
              /\ pipes' = [pipes EXCEPT !.stdout = Tail(@)]
     ELSE /\ pipes.stdout # <<>> \/ cmd.exited
          /\ runner' = [runner EXCEPT !.stdoutTask = "done", !.done = @ + 1]
          /\ UNCHANGED << pipes, console >>
  /\ UNCHANGED cmd
  /\ UNCHANGED << ledgerVars, sessionVars, runVars, classifier >>

\* one turn of the stderr task: the line is printed on os.Stderr and captured
ScanStderr ==
  /\ runner.main # "idle"
  /\ runner.stderrTask = "scan"
  /\ IF pipes.stderr # <<>> /\ LineLen(Head(pipes.stderr)) < MaxScanTokenSize
     THEN LET line == Head(pipes.stderr).text
          IN  /\ runner' = [runner EXCEPT !.stderrBuf = @ \o line \o <<"\n">>]
              /\ console' = [console EXCEPT !.stderr = Append(@, line)]
              /\ pipes' = [pipes EXCEPT !.stderr = Tail(@)]
     ELSE /\ pipes.stderr # <<>> \/ cmd.exited
          /\ runner' = [runner EXCEPT !.stderrTask = "done", !.done = @ + 1]
          /\ UNCHANGED << pipes, console >>
  /\ UNCHANGED cmd
  /\ UNCHANGED << ledgerVars, sessionVars, runVars, classifier >>

\* Join that goes on to cmd.Wait after the first of the two signals
Join_AfterOne ==
  /\ runner.main = "join"
  /\ runner.done > 0
  /\ runner' = [runner EXCEPT !.done = @ - 1, !.joined = @ + 1, !.main = "wait"]
  /\ UNCHANGED << cmd, pipes, console >>
  /\ UNCHANGED << ledgerVars, sessionVars, runVars, classifier >>

\* main receives from the done channel, twice
Join ==
  /\ runner.main = "join"
  /\ runner.done > 0
  /\ runner' = [runner EXCEPT !.done = @ - 1,
                              !.joined = @ + 1,
                              !.main = IF runner.joined = 1 THEN "wait" ELSE "join"]
  /\ UNCHANGED << cmd, pipes, console >>
  /\ UNCHANGED << ledgerVars, sessionVars, runVars, classifier >>

\* cmd.Wait returns once the process has exited; with a renderer Run clears
\* the progress bar and prints an empty line; it combines the two buffers
\* and returns them with the exit error
WaitAndReturn ==
  /\ runner.main = "wait"
  /\ cmd.exited
  /\ \E exitErr \in BOOLEAN :
       runner' = [clearProgress(runner) EXCEPT
                    !.main = "returned",
                    !.output = [Combined |-> combineOutputLines(runner.stdoutBuf,
                                                                runner.stderrBuf),
                                err      |-> IF exitErr THEN "exit" ELSE "nil"]]
  /\ console' = IF runner.renderer # "nil"
                THEN [console EXCEPT !.stdout = Append(@, <<>>)]
                ELSE console
  /\ UNCHANGED << cmd, pipes >>
  /\ UNCHANGED << ledgerVars, sessionVars, runVars, classifier >>

NextRunner == Emit \/ Exit \/ ScanStdout \/ ScanStderr \/ Join \/ WaitAndReturn

SpecRunner == InitRunner /\ [][NextRunner]_vars

\* the process, the two tasks and main each go on whenever they can
FairSpecRunner ==
  /\ SpecRunner
  /\ WF_vars(Emit) /\ WF_vars(Exit)
  /\ WF_vars(ScanStdout) /\ WF_vars(ScanStderr)
  /\ WF_vars(Join) /\ WF_vars(WaitAndReturn)

(***************************************************************************)
(* categorizeError as a function of its input.                             *)
(***************************************************************************)
\* the phrases of categorizeError, each with the category it stands for,
\* and a word that stands for none
Phrases ==
  { [text |-> <<"i","p"," ","a","d","d","r","e","s","s"," ","i","s"," ","b","l","o","c","k","e","d">>,
     type |-> "ErrorIPBlocked"],
    [text |-> <<"l","o","g"," ","i","n"," ","f","o","r"," ","a","c","c","e","s","s">>,
     type |-> "ErrorAuthRequired"],
    [text |-> <<"n","o","t"," ","c","o","m","f","o","r","t","a","b","l","e"," ","f","o","r"," ","s","o","m","e"," ","a","u","d","i","e","n","c","e","s">>,
     type |-> "ErrorAuthRequired"],
    [text |-> <<"n","o","t"," ","a","v","a","i","l","a","b","l","e">>,
     type |-> "ErrorNotAvailable"],
    [text |-> <<"p","r","i","v","a","t","e"," ","v","i","d","e","o">>,
     type |-> "ErrorNotAvailable"],
    [text |-> <<"t","i","m","e","o","u","t">>,
     type |-> "ErrorNetworkTimeout"],
    [text |-> <<"c","o","n","n","e","c","t","i","o","n"," ","r","e","f","u","s","e","d">>,
     type |-> "ErrorNetworkTimeout"],
    [text |-> <<"b","o","o","m">>,
     type |-> "ErrorOther"] }

RECURSIVE JoinPhrases(_)
\* the texts of the phrases, separated by one space
JoinPhrases(parts) ==
  IF parts = <<>> THEN <<>>
  ELSE IF Len(parts) = 1 THEN parts[1].text
  ELSE parts[1].text \o <<" ">> \o JoinPhrases(Tail(parts))

\* the message in one of three spellings: as the phrases are written in the
\* code, in capitals, or with every other letter a capital
Spelled(case, s) ==
  [i \in 1..Len(s) |->
     IF (case = "upper" \/ (case = "mixed" /\ i % 2 = 1))
        /\ \E k \in 1..Len(LowerCase) : LowerCase[k] = s[i]
     THEN UpperCase[CHOOSE k \in 1..Len(LowerCase) : LowerCase[k] = s[i]]
     ELSE s[i]]

\* the messages handed to categorizeError
ErrorMessages ==
  { [parts |-> ps, case |-> c, text |-> Spelled(c, JoinPhrases(ps))] :
      ps \in SeqsUpTo(Phrases, MaxPhrases), c \in { "lower", "upper", "mixed" } }

InitClassifier ==
  /\ classifier \in { [called |-> FALSE, errorMsg |-> m, errorType |-> "ErrorUnknown"] :
                        m \in ErrorMessages }
  /\ pc = "classifier"
  /\ config = [OrganizeByCollection |-> FALSE, DisableResume |-> FALSE]
  /\ videoEntries = <<>>
  /\ pending = {}
  /\ session = EmptySession
  /\ lastBatch = NoBatch
  /\ archiveFile = [status |-> "missing", lines |-> <<>>]
  /\ entries = <<>>
  /\ parsed = NotCalled
  /\ decision = NotCalled
  /\ RunIdle
  /\ RunnerIdle

CallCategorizeError ==
  /\ pc = "classifier"
  /\ ~classifier.called
  /\ classifier' = [classifier EXCEPT
                      !.called = TRUE,
                      !.errorType = categorizeError(classifier.errorMsg.text)]
  /\ UNCHANGED << ledgerVars, sessionVars, runVars, runnerVars >>

SpecClassifier == InitClassifier /\ [][CallCategorizeError]_vars

(***************************************************************************)
(* results.txt over several runs of the program: each run ends with one    *)
(* call of writeResultsFile (the step WriteReport of main).                *)
(***************************************************************************)
\* the sessions a run can have finalized when it writes its report: up to
\* two collections, each skipped, or run with one failure (not available,
\* blocked, or of no known category)
ReportSessions ==
  LET one     == << VideoEntry(UrlVideo1, Favorites) >>
      results == { SkippedResult(Favorites, one),
                   BuildResult(Favorites, one,
                               parseYtdlpOutput(<< OutPrivate >>, one)),
                   BuildResult(Liked, one,
                               parseYtdlpOutput(<< OutBlocked >>, one)),
                   BuildResult(Liked, one,
                               parseYtdlpOutput(<< OutErrInfo >>, one)) }
  IN  { LET t == calculateSessionTotals(cols)
        IN  [Collections |-> cols, TotalAttempted |-> t.attempted,
             TotalSuccess |-> t.success, TotalFailed |-> t.failed, finalized |-> TRUE] :
        cols \in SeqsUpTo(results, 2) }

\* the first run has reached its report; events.reports counts the calls of
\* writeResultsFile of all runs
InitReport ==
  /\ pc = "report"
  /\ session \in ReportSessions
  /\ resultsFile \in RunResultsFiles
  /\ events = NoEvents
  /\ current = NoCurrent
  /\ processes = 0
  /\ config = [OrganizeByCollection |-> FALSE, DisableResume |-> FALSE]
  /\ videoEntries = <<>>
  /\ pending = {}
  /\ lastBatch = NoBatch
  /\ archiveFile = [status |-> "missing", lines |-> <<>>]
  /\ entries = <<>>
  /\ parsed = NotCalled
  /\ decision = NotCalled
  /\ RunnerIdle
  /\ classifier = NotCalled

\* a later run of the program reaches its report; in between, an existing
\* results.txt may have been made read-only or writable again
LaterRun ==
  /\ pc = "done"
  /\ events.reports < MaxRuns
  /\ pc' = "report"
  /\ session' \in ReportSessions
  /\ resultsFile' \in
       { resultsFile }
       \cup (IF resultsFile.content = <<>> THEN {}
             ELSE { [resultsFile EXCEPT !.state = "present"],
                    [resultsFile EXCEPT !.state = "unwritable"] })
  /\ UNCHANGED << config, videoEntries, pending, lastBatch >>
  /\ UNCHANGED << current, processes, events >>
  /\ UNCHANGED << ledgerVars, runnerVars, classifier >>

NextReport == WriteReport \/ LaterRun

SpecReport == InitReport /\ [][NextReport]_vars

(***************************************************************************)
(* The argument list of the external process: the command line as          *)
(* parseFlags reads it, the cookie prompt of main, and the list            *)
(* runYtdlpWithRunner hands to runner.Run.                                 *)
(***************************************************************************)
\* filepath.Dir for paths with single separators
filepathDir(path) ==
  LET seps == { i \in 1..Len(path) : path[i] = "/" }
  IN  IF seps = {} THEN DotDir
      ELSE SubSeq(path, 1, (CHOOSE i \in seps : \A j \in seps : j <= i) - 1)

\* filepath.Join of a directory and a file name
filepathJoin(dir, name) == IF dir = DotDir THEN name ELSE dir \o <<"/">> \o name

getOutputFilename(collection) ==
  IF collection = Liked THEN <<"l","i","k","e","d","_","v","i","d","e","o","s",".","t","x","t">>
  ELSE <<"f","a","v","_","v","i","d","e","o","s",".","t","x","t">>

ArchiveName == <<"d","o","w","n","l","o","a","d","_","a","r","c","h","i","v","e",".","t","x","t">>

OutputTemplate == <<"%","(","u","p","l","o","a","d","_","d","a","t","e",")","s","_","%","(","i","d",")","s","_","%","(","t","i","t","l","e",")",".","5","0","B",".","%","(","e","x","t",")","s">>

\* the argument list that also carries the resume flags when resume is disabled
ytdlpArgs_AlwaysResume(outputName, organizeByCollection, skipThumbnails, disableResume, cookieFile, cookieFromBrowser) ==
  << <<"-","a">>, outputName, <<"-","-","o","u","t","p","u","t">>,
     IF organizeByCollection THEN filepathJoin(filepathDir(outputName), OutputTemplate)
     ELSE OutputTemplate,
     <<"-","-","w","r","i","t","e","-","i","n","f","o","-","j","s","o","n">> >>
  \o (IF ~skipThumbnails THEN << <<"-","-","w","r","i","t","e","-","t","h","u","m","b","n","a","i","l">> >> ELSE <<>>)
  \o (IF cookieFile # <<>> THEN << <<"-","-","c","o","o","k","i","e","s">>, cookieFile >> ELSE <<>>)
  \o (IF cookieFromBrowser # <<>> THEN << <<"-","-","c","o","o","k","i","e","s","-","f","r","o","m","-","b","r","o","w","s","e","r">>, cookieFromBrowser >> ELSE <<>>)
  \o << <<"-","-","d","o","w","n","l","o","a","d","-","a","r","c","h","i","v","e">>,
        IF organizeByCollection THEN filepathJoin(filepathDir(outputName), ArchiveName)
        ELSE ArchiveName,
        <<"-","-","n","o","-","o","v","e","r","w","r","i","t","e","s">>, <<"-","-","c","o","n","t","i","n","u","e">> >>

\* args as runYtdlpWithRunner builds it before runner.Run
ytdlpArgs(outputName, organizeByCollection, skipThumbnails, disableResume, cookieFile, cookieFromBrowser) ==
  << <<"-","a">>, outputName, <<"-","-","o","u","t","p","u","t">>,
     IF organizeByCollection THEN filepathJoin(filepathDir(outputName), OutputTemplate)
     ELSE OutputTemplate,
     <<"-","-","w","r","i","t","e","-","i","n","f","o","-","j","s","o","n">> >>
  \o (IF ~skipThumbnails THEN << <<"-","-","w","r","i","t","e","-","t","h","u","m","b","n","a","i","l">> >> ELSE <<>>)
  \o (IF cookieFile # <<>> THEN << <<"-","-","c","o","o","k","i","e","s">>, cookieFile >> ELSE <<>>)
  \o (IF cookieFromBrowser # <<>> THEN << <<"-","-","c","o","o","k","i","e","s","-","f","r","o","m","-","b","r","o","w","s","e","r">>, cookieFromBrowser >> ELSE <<>>)
  \o (IF ~disableResume
      THEN << <<"-","-","d","o","w","n","l","o","a","d","-","a","r","c","h","i","v","e">>,
              IF organizeByCollection
              THEN filepathJoin(filepathDir(outputName), ArchiveName)
              ELSE ArchiveName,
              <<"-","-","n","o","-","o","v","e","r","w","r","i","t","e","s">>, <<"-","-","c","o","n","t","i","n","u","e">> >>
      ELSE <<>>)

\* values of --cookies and --cookies-from-browser; empty: flag not given
CookieFiles == { <<>>, <<"c","o","o","k","i","e","s",".","t","x","t">> }
Browsers == { <<>>, <<"f","i","r","e","f","o","x">> }

\* the command line: config holds the values of the flags
InitArgs ==
  /\ pc = "flags"
  /\ config \in [OrganizeByCollection : BOOLEAN, SkipThumbnails : BOOLEAN,
                 DisableResume : BOOLEAN, CookieFile : CookieFiles,
                 CookieFromBrowser : Browsers]
  /\ lastBatch = NoBatch
  /\ videoEntries = <<>>
  /\ pending = {}
  /\ session = EmptySession
  /\ archiveFile = [status |-> "missing", lines |-> <<>>]
  /\ entries = <<>>
  /\ parsed = NotCalled
  /\ decision = NotCalled
  /\ RunIdle
  /\ RunnerIdle
  /\ classifier = NotCalled

\* parseFlags: both cookie flags, or a cookie file that fails validation,
\* end the program with os.Exit(1)
parseFlags ==
  /\ pc = "flags"
  /\ \E cookieFileValid \in BOOLEAN :
       pc' = IF \/ config.CookieFile # <<>> /\ config.CookieFromBrowser # <<>>
                \/ config.CookieFile # <<>> /\ ~cookieFileValid
             THEN "exit"
             ELSE "prompt"
  /\ UNCHANGED << config, videoEntries, pending, session, lastBatch >>
  /\ UNCHANGED << ledgerVars, runVars, runnerVars, classifier >>

\* main asks for cookies only when neither flag was given; promptForCookies
\* sets one of the two fields, or none when the user declines or the answer
\* fails validation
promptForCookies ==
  /\ pc = "prompt"
  /\ pc' = "batches"
  /\ IF config.CookieFile = <<>> /\ config.CookieFromBrowser = <<>>
     THEN \E answer \in { "n", "1", "1 invalid", "2", "2 invalid", "3" } :
            config' = CASE answer = "1" -> [config EXCEPT !.CookieFile = <<"c","o","o","k","i","e","s",".","t","x","t">>]
                        [] answer = "2" -> [config EXCEPT !.CookieFromBrowser = <<"f","i","r","e","f","o","x">>]
                        [] OTHER -> config
     ELSE config' = config
  /\ UNCHANGED << videoEntries, pending, session, lastBatch >>
  /\ UNCHANGED << ledgerVars, runVars, runnerVars, classifier >>

\* runYtdlpWithRunner reaches runner.Run for a batch: a collection's file in
\* its directory, or the one file of the flat structure
InvokeRunner ==
  /\ pc = "batches"
  /\ pc' = "invoked"
  /\ \E collection \in { Favorites, Liked } :
       LET outputName == IF config.OrganizeByCollection
                         THEN filepathJoin(collection, getOutputFilename(collection))
                         ELSE <<"f","a","v","_","v","i","d","e","o","s",".","t","x","t">>
       IN  lastBatch' = [ran |-> TRUE, outputName |-> outputName,
                         args |-> ytdlpArgs(outputName, config.OrganizeByCollection,
                                            config.SkipThumbnails, config.DisableResume,
                                            config.CookieFile, config.CookieFromBrowser)]
  /\ UNCHANGED << config, videoEntries, pending, session >>
  /\ UNCHANGED << ledgerVars, runVars, runnerVars, classifier >>

NextArgs == parseFlags \/ promptForCookies \/ InvokeRunner

SpecArgs == InitArgs /\ [][NextArgs]_vars

(***************************************************************************)
(* Properties of the ledger reader and the skip evaluator.                 *)
(***************************************************************************)
\* the identifiers the links of the batch yield
RequestedIDs == { extractVideoID(entries[i].Link) : i \in 1..Len(entries) }

\* the ledger as the reader returns it for the file of the state
Ledger == parseArchiveFile(archiveFile).archive

LedgerReadable == parseArchiveFile(archiveFile).err = "nil"

\* C1: for a readable ledger the skip evaluator answers skip=true exactly
\* when the batch is empty, or the ledger is non-empty and every link of the
\* batch yields a non-empty identifier that the ledger holds; a link without
\* identifier forces skip=false.
C1_SkipIffAllInLedger ==
  (decision.called /\ LedgerReadable) =>
    /\ decision.skip <=>
         \/ entries = <<>>
         \/ /\ Ledger # {}
            /\ \A id \in RequestedIDs : id # <<>> /\ id \in Ledger
    /\ (<<>> \in RequestedIDs) => ~decision.skip

\* a batch of two links was evaluated against a non-empty ledger and skipped
C1_Witness ==
  decision.called /\ decision.skip /\ Len(entries) = 2 /\ Ledger # {}

\* the line is one the reader accepts: short enough to be scanned, exactly
\* two fields, the platform tag, an identifier that passes the numeric check
AcceptedLine(l) ==
  /\ LineLen(l) < MaxScanTokenSize
  /\ LET parts == Fields(l.text)
     IN  Len(parts) = 2 /\ parts[1] = PlatformTag /\ ParseIntOk(parts[2])

LineID(l) == Fields(l.text)[2]

\* C4: a missing ledger gives the empty set and no error; line content never
\* makes the reader fail: unusable lines are skipped and every valid line of
\* the same file is in the result.
C4_ContentNeverFails ==
  parsed.called =>
    /\ archiveFile.status = "missing" => (parsed.archive = {} /\ parsed.err = "nil")
    /\ archiveFile.status = "ok" =>
         /\ parsed.err = "nil"
         /\ \A i \in 1..Len(archiveFile.lines) :
              AcceptedLine(archiveFile.lines[i]) =>
                LineID(archiveFile.lines[i]) \in parsed.archive

\* C5: every identifier the reader returns consists of decimal digits only.
C5_IdentifiersAreDigits ==
  parsed.called =>
    \A id \in parsed.archive : \A i \in 1..Len(id) : IsDigit(id[i])

OnlyLines(file, Keep(_)) == [status |-> file.status, lines |-> SelectSeq(file.lines, Keep)]

C7_NeedIsSetDifference ==
  (decision.called /\ ~decision.skip /\ decision.msg.kind = "partial") =>
    /\ decision.msg.need = Cardinality(RequestedIDs \ Ledger)
    /\ decision.msg.total = Len(entries)

(***************************************************************************)
(* Properties of a batch and of the session.                               *)
(***************************************************************************)
\* the result of the last batch is the last one recorded in the session
LastResultRecorded ==
  /\ session.Collections # <<>>
  /\ session.Collections[Len(session.Collections)] = lastBatch.result

\* C2: with resume enabled, when the skip evaluator answers skip=true the
\* runner is not invoked and the outcome counts every entry as attempted and
\* successful, with no failure.
C2_SkipBypassesRunner ==
  (lastBatch.ran /\ lastBatch.check.called /\ lastBatch.check.skip) =>
    /\ lastBatch.runnerCalls = 0
    /\ lastBatch.result.Attempted = Len(lastBatch.batch)
    /\ lastBatch.result.Success = Len(lastBatch.batch)
    /\ lastBatch.result.Failed = 0
    /\ lastBatch.result.FailureDetails = <<>>

\* a non-empty batch was skipped because the ledger holds all of it
C2_Witness ==
  /\ lastBatch.ran /\ lastBatch.check.called /\ lastBatch.check.skip
  /\ Len(lastBatch.batch) >= 1

\* C3: when reading the ledger fails, the skip evaluator answers skip=false
\* with the error, the runner is still invoked exactly once for the batch and
\* an outcome is produced and recorded.
C3_LedgerErrorStillRuns ==
  (lastBatch.ran /\ lastBatch.check.called /\ lastBatch.check.err # "nil") =>
    /\ ~lastBatch.check.skip
    /\ lastBatch.runnerCalls = 1
    /\ lastBatch.result.Attempted = Len(lastBatch.batch)
    /\ LastResultRecorded

\* the ledger of a non-empty batch could not be read
C3_Witness ==
  /\ lastBatch.ran /\ lastBatch.check.called /\ lastBatch.check.err # "nil"
  /\ Len(lastBatch.batch) >= 1

\* C8: every outcome has Attempted = Success + Failed and Failed = number of
\* its failure details, and Attempted = number of requested entries.
C8_OutcomeArithmetic ==
  /\ \A i \in 1..Len(session.Collections) :
       LET r == session.Collections[i]
       IN  r.Attempted = r.Success + r.Failed /\ r.Failed = Len(r.FailureDetails)
  /\ lastBatch.ran =>
       /\ lastBatch.result.Attempted = Len(lastBatch.batch)
       /\ LastResultRecorded

\* the runner ran, returned an error, and failures were found in its output
C8_Witness ==
  /\ lastBatch.ran /\ lastBatch.runnerCalls = 1 /\ lastBatch.err # "nil"
  /\ lastBatch.result.Failed >= 1

RECURSIVE SumSeq(_)
\* the sum of a sequence of integers
SumSeq(s) == IF s = <<>> THEN 0 ELSE s[Len(s)] + SumSeq(SubSeq(s, 1, Len(s) - 1))

AttemptedOf(collections) == [i \in 1..Len(collections) |-> collections[i].Attempted]
SuccessOf(collections) == [i \in 1..Len(collections) |-> collections[i].Success]
FailedOf(collections) == [i \in 1..Len(collections) |-> collections[i].Failed]

\* C9: after the session is finalized its totals are the component-wise sums
\* over the batches recorded in it (all zero when there is none), hence
\* TotalAttempted = TotalSuccess + TotalFailed.
C9_TotalsAreSums ==
  session.finalized =>
    /\ session.TotalAttempted = SumSeq(AttemptedOf(session.Collections))
    /\ session.TotalSuccess = SumSeq(SuccessOf(session.Collections))
    /\ session.TotalFailed = SumSeq(FailedOf(session.Collections))
    /\ session.TotalAttempted = session.TotalSuccess + session.TotalFailed
    /\ session.Collections = <<>> =>
         (session.TotalAttempted = 0 /\ session.TotalSuccess = 0 /\ session.TotalFailed = 0)

\* a session of two batches with failures in both was finalized
C9_Witness ==
  /\ session.finalized /\ Len(session.Collections) = 2
  /\ \A i \in 1..2 : session.Collections[i].Failed >= 1

\* C10: when the external process cannot be started (the runner returns an
\* error and no output) the batch still gives an outcome that is recorded in
\* the session, and for a non-empty batch that outcome has Failed > 0.
C10_StartFailureIsFailureHeavy ==
  (lastBatch.ran /\ lastBatch.runnerCalls = 1 /\ lastBatch.err = "start"
     /\ lastBatch.noOutput) =>
    /\ LastResultRecorded
    /\ Len(lastBatch.batch) > 0 => lastBatch.result.Failed > 0
(***************************************************************************)
(* Properties of the stepwise run.                                         *)
(***************************************************************************)
\* how often the batch of a collection has reached Skipped or Completed
TimesEnded(dir) == Len(SelectSeq(events.ended, LAMBDA d : d = dir))

\* the run has gone through Aggregating and has reported
Reported ==
  /\ pc = "done"
  /\ \A dir \in RunDirs : TimesEnded(dir) = 1
  /\ Len(events.ended) = Cardinality(RunDirs)
  /\ Len(session.Collections) = Cardinality(RunDirs)
  /\ events.finalized = 1
  /\ events.summaries = 1
  /\ events.reports = 1

MatchesVerbose(line) == \E pattern \in verbosePatterns : Contains(line, pattern)

\* in this step the stdout task takes the line at the head of its pipe
StdoutTaken == pipes.stdout # <<>> /\ pipes'.stdout = Tail(pipes.stdout)

Echoed(line) == console'.stdout = Append(console.stdout, line)

Counted == runner'.state.FailureCount = runner.state.FailureCount + 1

\* C12: with the progress renderer active, a stdout line that contains
\* "ERROR: [TikTok]" and also a verbose-noise substring is printed on the
\* console and adds one to the failure counter when the stdout task takes it.
C12_ErrorBeatsVerbose ==
  [][ (StdoutTaken /\ Tracking(runner)) =>
        LET line == Head(pipes.stdout).text
        IN  (isErrorLine(line) /\ MatchesVerbose(line)) => (Echoed(line) /\ Counted)
    ]_vars

\* C13: every stdout line that contains "ERROR: [TikTok]" is printed on the
\* console when the stdout task takes it, and is counted as a failure by the
\* progress state when there is one, whatever else the line contains.
C13_ErrorsAlwaysEchoed ==
  [][ StdoutTaken =>
        LET line == Head(pipes.stdout).text
        IN  isErrorLine(line) => (Echoed(line) /\ (Tracking(runner) => Counted))
    ]_vars

\* the lines the process has written on a stream, in the order written
EmittedOn(stream) ==
  LET written == SubSeq(cmd.script, 1, cmd.next - 1)
      own     == SelectSeq(written, LAMBDA e : e.stream = stream)
  IN  [i \in 1..Len(own) |-> own[i].line]

\* the lines a buffer holds
BufLines(buf) ==
  LET s == SplitLines(buf)
  IN  [i \in 1..(Len(s) - 1) |-> Line(s[i])]

\* C14: Run returns only after both tasks have finished and the process has
\* been waited for, and what it returns holds every line written on stdout
\* and every line written on stderr, each stream in the order written,
\* nothing lost and nothing twice.
C14_CapturesEveryLine ==
  (runner.main = "returned") =>
    /\ runner.stdoutTask = "done" /\ runner.stderrTask = "done" /\ cmd.exited
    /\ BufLines(runner.stdoutBuf) = EmittedOn("stdout")
    /\ BufLines(runner.stderrBuf) = EmittedOn("stderr")
    /\ SelectSeq(runner.output.Combined, LAMBDA l : l # <<>>)
         = [i \in 1..Len(EmittedOn("stdout") \o EmittedOn("stderr")) |->
              (EmittedOn("stdout") \o EmittedOn("stderr"))[i].text]

RECURSIVE IsSubsequence(_, _)
\* a can be had from b by leaving elements out
IsSubsequence(a, b) ==
  IF a = <<>> THEN TRUE
  ELSE IF b = <<>> THEN FALSE
  ELSE IF Head(a) = Head(b) THEN IsSubsequence(Tail(a), Tail(b))
  ELSE IsSubsequence(a, Tail(b))

\* identifier and message of the error lines written, in the order written
ErrorsWritten ==
  LET written == SubSeq(cmd.script, 1, cmd.next - 1)
      errs    == SelectSeq(written, LAMBDA e : errorPattern(e.line.text).ok)
  IN  [i \in 1..Len(errs) |->
         LET m == errorPattern(errs[i].line.text)
         IN  [VideoID |-> m.id, ErrorMessage |-> TrimSpace(m.rest)]]

\* identifier and message of the failures extracted from the returned output
FailuresReturned ==
  LET f == parseYtdlpOutput(runner.output.Combined, <<>>)
  IN  [i \in 1..Len(f) |-> [VideoID |-> f[i].VideoID, ErrorMessage |-> f[i].ErrorMessage]]

\* C18: the failures extracted from the output of a call follow the order in
\* which the external process wrote their error lines, on either stream.
C18_FailuresInEmissionOrder ==
  (runner.main = "returned") => IsSubsequence(FailuresReturned, ErrorsWritten)
(***************************************************************************)
(* Order of the steps of the stepwise run.                                 *)
(***************************************************************************)
\* runYtdlpWithRunner has got past its pre-check for the current batch
PastPreCheck == current.phase \in { "Invoke", "Running", "Classifying", "Completed" }

\* C15: at every point of a run at most one external process is in
\* progress, and it is the one of the batch main is at; when the skip check
\* (or, without it, the invocation) of a batch begins, every earlier batch
\* has ended, its result is recorded and its index is generated.
C15_OneBatchAtATime ==
  /\ processes <= 1
  /\ processes = 1 => current.phase = "Running"
  /\ current.phase \in { "SkipCheck", "Invoke", "Running", "Classifying" } =>
       /\ events.indexed = events.ended
       /\ Len(session.Collections) = Len(events.ended)

\* the skip check of a second batch begins after the first batch ran the
\* external process, recorded a failure and generated its index
C15_Witness ==
  /\ current.phase = "SkipCheck"
  /\ processes = 0
  /\ Len(events.indexed) = 1
  /\ Len(session.Collections) = 1
  /\ session.Collections[1].Failed > 0

\* C20 as claimed: in every run of every batch the runner is invoked only
\* after the skip check has run and answered skip=false or a ledger error.
C20_CheckAlwaysPrecedesRunner ==
  PastPreCheck =>
    /\ current.check.called
    /\ current.check.err # "nil" \/ ~current.check.skip

\* C20 as amended: with resume enabled the runner is invoked only after the
\* skip check has run and answered skip=false or a ledger error; with resume
\* disabled no skip check runs and the runner is invoked for every batch.
C20_CheckPrecedesRunnerUnlessDisabled ==
  /\ (PastPreCheck /\ ~config.DisableResume) =>
       /\ current.check.called
       /\ current.check.err # "nil" \/ ~current.check.skip
  /\ (current.phase # "Idle" /\ config.DisableResume) =>
       /\ ~current.check.called
       /\ current.phase \notin { "SkipCheck", "Skipped" }

\* the external process runs for a batch whose ledger could not be read
C20_Witness ==
  /\ ~config.DisableResume
  /\ current.phase = "Running"
  /\ processes = 1
  /\ current.check.called
  /\ current.check.err # "nil"

(***************************************************************************)
(* The reverse lookup of parseYtdlpOutput in a run of main.                *)
(***************************************************************************)
\* C17: in a run started from main, a FailureDetail whose identifier is the
\* one extractVideoID finds in the link of an entry of the batch carries
\* that link as its VideoURL.
C17_FailureCarriesLink ==
  lastBatch.ran =>
    \A i \in 1..Len(lastBatch.result.FailureDetails), j \in 1..Len(lastBatch.batch) :
      LET f == lastBatch.result.FailureDetails[i]
          e == lastBatch.batch[j]
      IN  extractVideoID(e.Link) = f.VideoID => f.VideoURL = e.Link
(***************************************************************************)
(* Properties of categorizeError.                                          *)
(***************************************************************************)
\* the categories in the order in which they are to be tried
CategoryOrder ==
  << "ErrorIPBlocked", "ErrorAuthRequired", "ErrorNotAvailable", "ErrorNetworkTimeout",
     "ErrorOther" >>

\* the first category, in that order, that a phrase of the message stands for
FirstCategory(parts) ==
  LET found == { k \in 1..Len(CategoryOrder) :
                   \E i \in 1..Len(parts) : parts[i].type = CategoryOrder[k] }
  IN  IF found = {} THEN "ErrorOther"
      ELSE CategoryOrder[CHOOSE k \in found : \A j \in found : k <= j]

\* C16: whatever the spelling of the message, categorizeError answers the
\* first of IP-Blocked, Authentication-Required, Not-Available and
\* Network-Timeout of which the message holds a phrase, Other when it holds
\* none, and never the zero value ErrorUnknown.
C16_FirstCategoryWins ==
  classifier.called =>
    /\ classifier.errorType = FirstCategory(classifier.errorMsg.parts)
    /\ \E k \in 1..Len(CategoryOrder) : classifier.errorType = CategoryOrder[k]
    /\ classifier.errorType # "ErrorUnknown"

\* a message in capitals with "timeout" before "ip address is blocked"
C16_Witness ==
  /\ classifier.called
  /\ classifier.errorMsg.case = "upper"
  /\ Len(classifier.errorMsg.parts) = 2
  /\ classifier.errorMsg.parts[1].type = "ErrorNetworkTimeout"
  /\ classifier.errorMsg.parts[2].type = "ErrorIPBlocked"
  /\ classifier.errorType = "ErrorIPBlocked"
(***************************************************************************)
(* Properties of writeResultsFile.                                         *)
(***************************************************************************)
IsPrefix(a, b) == Len(a) <= Len(b) /\ SubSeq(b, 1, Len(a)) = a

\* the sections of a file, counted by their title lines
SectionCount(content) ==
  Len(SelectSeq(content,
                LAMBDA l : l = <<"T","i","k","T","o","k"," ","V","i","d","e","o"," ","D","o","w","n","l","o","a","d","e","r"," ","-"," ","S","e","s","s","i","o","n"," ","R","e","s","u","l","t","s">>))

\* this step is a call of writeResultsFile
WriteCall == pc = "report" /\ pc' = "done"

NotEchoed == console'.stdout = console.stdout

\* C21: with a renderer and a state attached, a stdout line that matches the
\* progress pattern sets CurrentIndex and TotalVideos to its two numbers,
\* leaves the two counters alone and is not printed; a line that contains a
\* skip phrase adds one to CurrentIndex and to SuccessCount, leaves
\* FailureCount alone and is not printed; a line that contains
\* "ERROR: [TikTok]" adds one to FailureCount and changes nothing else; any
\* other line leaves the ProgressState as it was.
C21_OneRulePerLine ==
  [][ (StdoutTaken /\ Tracking(runner)) =>
        LET c == StdoutChecks[Head(pipes.stdout).text]
            s == runner.state
        IN  /\ c.progress.isProgress =>
                 /\ runner'.state = [s EXCEPT !.CurrentIndex = c.progress.current,
                                              !.TotalVideos = c.progress.total]
                 /\ NotEchoed
            /\ c.skip =>
                 /\ runner'.state = [s EXCEPT !.CurrentIndex = @ + 1,
                                              !.SuccessCount = @ + 1]
                 /\ NotEchoed
            /\ c.error => runner'.state = [s EXCEPT !.FailureCount = @ + 1]
            /\ (~c.progress.isProgress /\ ~c.skip /\ ~c.error) => runner'.state = s
    ]_vars

StderrTaken == pipes.stderr # <<>> /\ pipes'.stderr = Tail(pipes.stderr)

\* this step writes the ProgressState or the ProgressRenderer
ProgressTouched ==
  \/ runner'.state # runner.state
  \/ runner'.bars # runner.bars
  \/ runner'.drawn # runner.drawn

\* C23: a step of the stderr task prints and captures its line and leaves
\* ProgressState and ProgressRenderer alone; every step that writes one of
\* them is a step of the stdout task, or the step of main after it has
\* received the completion signal of both tasks and both have ended.
C23_OnlyStdoutTaskTouchesProgress ==
  [][ /\ StderrTaken =>
           /\ ~ProgressTouched
           /\ console'.stderr = Append(console.stderr, Head(pipes.stderr).text)
           /\ runner'.stderrBuf = runner.stderrBuf \o Head(pipes.stderr).text \o <<"\n">>
      /\ (ProgressTouched /\ ~StdoutTaken) =>
           /\ runner.main = "wait" /\ runner'.main = "returned"
           /\ runner.joined = 2
           /\ runner.stdoutTask = "done" /\ runner.stderrTask = "done"
    ]_vars

\* Run has returned with an enabled renderer: the stdout task counted an
\* error line and drew the bar, the stderr task echoed a line, and main
\* cleared the bar after both had ended
C23_Witness ==
  /\ runner.main = "returned"
  /\ Enabled(runner)
  /\ runner.state.FailureCount = 1
  /\ runner.bars > 0
  /\ ~runner.drawn
  /\ console.stderr # <<>>
\* C28: when Run has returned from a call with progress tracking, the
\* FailureCount of the ProgressState is the number of failures the
\* failure-extraction pass finds in the returned output.
C28_LiveCountIsFinalCount ==
  (runner.main = "returned" /\ Tracking(runner)) =>
    runner.state.FailureCount = Len(FailuresReturned)
\* C27: in every state of a call with progress tracking the ProgressState
\* has 0 <= CurrentIndex <= TotalVideos.
C27_IndexWithinTotal ==
  Tracking(runner) =>
    /\ 0 <= runner.state.CurrentIndex
    /\ runner.state.CurrentIndex <= runner.state.TotalVideos
\* C30: when the process, the two tasks and main each go on whenever they
\* can, every call of Run returns: no task stops reading before the end of
\* its stream and the process is never left blocked on a pipe nobody reads.
C30_RunReturns == <>(runner.main = "returned")

(***************************************************************************)
(* Properties of the argument list.                                        *)
(***************************************************************************)
IsSuffix(a, b) == Len(a) <= Len(b) /\ SubSeq(b, Len(b) - Len(a) + 1, Len(b)) = a

Has(args, flag) == \E i \in 1..Len(args) : args[i] = flag

Written ==
  SubSeq(resultsFile'.content, Len(resultsFile.content) + 1, Len(resultsFile'.content))

HasLine(lines, l) == \E i \in 1..Len(lines) : lines[i] = l

\* the troubleshooting paragraph of a category starts with the line
\* "<category> (<n> videos):"
HasParagraph(lines, e) ==
  \E i \in 1..Len(lines) : HasPrefixAt(lines[i], 1, ErrorTypeString(e) \o <<" ","(">>)

HasFailureList(lines) ==
  /\ HasLine(lines, <<"F","A","I","L","E","D"," ","D","O","W","N","L","O","A","D","S">>)
  /\ HasLine(lines, <<"T","R","O","U","B","L","E","S","H","O","O","T","I","N","G"," ","T","I","P","S">>)

\* the categories with a guidance paragraph
TipCategories ==
  { "ErrorIPBlocked", "ErrorAuthRequired", "ErrorNotAvailable", "ErrorNetworkTimeout" }

C26_OutcomeWithinBounds ==
  lastBatch.ran =>
    /\ 0 <= lastBatch.result.Success
    /\ lastBatch.result.Success <= lastBatch.result.Attempted
    /\ 0 <= lastBatch.result.Failed
    /\ lastBatch.result.Failed <= lastBatch.result.Attempted
\* the ledger file of the state holds the line "tiktok <id>"
LedgerFileHasLine(id) ==
  \E i \in 1..Len(archiveFile.lines) :
    archiveFile.lines[i] = Line(PlatformTag \o <<" ">> \o id)

\* C29: when every link of the batch has an extractable identifier and the
\* ledger file holds a line "tiktok <id>" for each of them, the skip
\* evaluator answers skip=true, whatever the length of the digit string.
C29_EveryExtractableIdMatches ==
  ( /\ decision.called
    /\ archiveFile.status = "ok"
    /\ \A id \in RequestedIDs : id # <<>> /\ LedgerFileHasLine(id) )
  => decision.skip

====
